---- MODULE Spec2Model ----
(***************************************************************************)
(* PytorchModelCreator (psyneulink/library/compositions/                   *)
(* pytorchmodelcreator.py): execution-set scheduling of a processing       *)
(* graph, the interpreted forward method, the generated forward kernel and *)
(* the generated training kernel (backpropagation + optimizer step).       *)
(*                                                                         *)
(* Numbers are integers.  Vectors are sequences of integers, a weight      *)
(* matrix is a sequence of rows: rows = width of the sender (dim_x),       *)
(* columns = width of the receiver (dim_y).  exp and the reciprocal of the *)
(* Logistic are taken in fixed point with unit LogisticOne.                *)
(***************************************************************************)
EXTENDS Integers, Sequences, FiniteSets, TLC

VARIABLES
    graph,              \* the processing graph handed over by the composition
    sched_pc,           \* scheduler: "run" | "done" | "CyclicGraphError"
    execution_sets,     \* sequence of sets of nodes (consideration queue)
    cyclic_node,        \* node named by the CyclicGraphError, 0 when none
    param_init_from_pnl,\* constructor argument
    debug_env,          \* pnlvm.debug_env: {} or {"no_ref_pass"}
    weights,            \* projections_to_pytorch_weights: projection -> matrix
    biases,             \* component_to_forward_info[c][1]: node -> vector | << >> (None)
    value,              \* component_to_forward_info[c][0]: node -> vector
    fwd_input,          \* history: sample of the last forward call made with the
                        \* current parameters, 0 when there is none
    model_params,       \* compiled param struct [node][0][afferent index]
    model_input,        \* compiled input region: node -> vector
    data,               \* compiled data struct (arg_out): node -> vector
    z_values,           \* pre-activations retained by the training forward pass
    fwd_kernel,         \* "none" | "ok" | "error": state of _gen_llvm_function
    bin_input,          \* history: sample of the last run of the forward kernel made
                        \* with the current parameters, 0 when there is none
    train_kernel,       \* "none" | "gen" | "ok" | "error" | "KeyError"
    backprop_queue,     \* deque of _gen_llvm_training_backprop
    error_dict,         \* nodes in insertion order of error_dict
    train_pc,           \* position inside the running training kernel
    epochs,             \* autodiff_stimuli_struct: epochs
    batch,              \* autodiff_stimuli_struct: sequence of sample ids
    epoch_idx,          \* loop counter of epoch_loop
    input_idx,          \* loop counter of input_loop
    optimizer_struct,   \* [delta_w: node -> afferent index -> matrix], and m, v, t for Adam
    error_val,          \* run-time error vectors: node -> vector
    total_loss,         \* scalar loss of the last backprop call
    params_at_start,    \* history: effective weights when the training call began
    train_calls,        \* number of training kernel invocations so far
    outputs,            \* the dict forward returned last and copied to the host, << >> before
    weights_in_numpy,   \* the dict get_weights_for_projections returned last, << >> before
    loss_values,        \* history: the summed output-node loss of each backpropagated sample
    forward_runs,       \* history: the (epoch, input) positions at which the forward body ran
    param_struct_type,  \* result of the last _get_param_struct_type, << >> when none
    loss_spec,          \* composition.loss_spec
    optimizer_type,     \* composition.optimizer_type
    compile_attempts,   \* number of generation attempts made after a failed one
    invocations,        \* number of times the host calls the training kernel
    target_nodes,       \* the nodes the host's training configuration has targets for
    _cached_param_list, \* "none", or the mode ("ref" | "copy") the cached list was built in
    weight_ptr_mode,    \* per kernel: the mode its weight pointers were generated in
    torch_steps         \* number of steps of the host's pytorch optimizer so far

(***************************************************************************)
(* Bounds                                                                  *)
(***************************************************************************)
MaxNodes == 4

MaxEdges == 4

MaxEpochs == 2

MaxInputs == 2

MaxTrainCalls == 1

MaxTorchSteps == 1

MaxCompileAttempts == 1

MaxInvocations == 2

\* the draws of torch.rand and the samples the host may present
Seeds == {1, 2}

SampleIds == {1, 2}

(***************************************************************************)
(* Generic helpers                                                         *)
(***************************************************************************)
RECURSIVE SetToSeq(_)
SetToSeq(S) ==
    IF S = {} THEN << >>
    ELSE LET x == CHOOSE y \in S : \A z \in S : y[1] < z[1] \/ (y[1] = z[1] /\ y[2] <= z[2])
         IN  <<x>> \o SetToSeq(S \ {x})

RECURSIVE SortedSeq(_)
SortedSeq(S) ==
    IF S = {} THEN << >>
    ELSE LET x == CHOOSE y \in S : \A z \in S : y <= z
         IN  <<x>> \o SortedSeq(S \ {x})

Range(s) == {s[i] : i \in 1..Len(s)}

RECURSIVE UnionAll(_)
UnionAll(ss) == IF ss = << >> THEN {} ELSE Head(ss) \cup UnionAll(Tail(ss))

RECURSIVE SumSeq(_)
SumSeq(s) == IF s = << >> THEN 0 ELSE Head(s) + SumSeq(Tail(s))

Zeros(dim) == [k \in 1..dim |-> 0]

ZeroMatrix(x, y) == [r \in 1..x |-> [c \in 1..y |-> 0]]

(***************************************************************************)
(* Graph: nodes 1..n (the node index of the composition), proj = the       *)
(* sequence of projections <<sender, receiver>> in creation order.         *)
(***************************************************************************)
Nodes(g) == 1..g.n

Projections(g) == 1..Len(g.proj)

Sender(g, p) == g.proj[p][1]

Receiver(g, p) == g.proj[p][2]

Predecessors(g, n) == {Sender(g, p) : p \in {q \in Projections(g) : Receiver(g, q) = n}}

Successors(g, n) == {Receiver(g, p) : p \in {q \in Projections(g) : Sender(g, q) = n}}

\* nodes reachable from n along one or more projections
RECURSIVE ReachFrom(_, _, _)
ReachFrom(g, frontier, seen) ==
    LET next == UNION {Successors(g, m) : m \in frontier} \ seen
    IN  IF next = {} THEN seen ELSE ReachFrom(g, next, seen \cup next)

OnCycle(g, n) == n \in ReachFrom(g, {n}, {})

HasCycle(g) == \E n \in Nodes(g) : OnCycle(g, n)

(***************************************************************************)
(* Execution Scheduler (spec 4.1): Kahn-style layering.                    *)
(***************************************************************************)
Assigned == UnionAll(execution_sets)

Remaining == Nodes(graph) \ Assigned

\* faulty variant: a node is taken as soon as one of its predecessors is assigned
ReadyNodes_AnyPredecessor(g, assigned) ==
    {n \in Nodes(g) \ assigned :
        Predecessors(g, n) = {} \/ Predecessors(g, n) \cap assigned # {}}

\* faulty variant: after the origin nodes every other node goes into one set
ReadyNodes_RestInOneSet(g, assigned) ==
    IF assigned = {} THEN {n \in Nodes(g) : Predecessors(g, n) = {}}
    ELSE Nodes(g) \ assigned

\* the nodes whose predecessors have all been assigned to an earlier set
ReadyNodes(g, assigned) ==
    {n \in Nodes(g) \ assigned : Predecessors(g, n) \subseteq assigned}

\* faulty variant: the error names any node that is still unassigned
CycleParticipants_AnyUnassigned(g, assigned) == Nodes(g) \ assigned

\* the nodes a CyclicGraphError may name: unassigned nodes that participate in a cycle
CycleParticipants(g, assigned) == {n \in Nodes(g) \ assigned : OnCycle(g, n)}

(***************************************************************************)
(* Primitive kernels (the __pnl_builtin functions), explicit shapes.       *)
(***************************************************************************)
\* row vector (length x) times matrix (x rows, y columns) -> vector of length y
vxm(v, m, x, y) == [c \in 1..y |-> SumSeq([r \in 1..x |-> v[r] * m[r][c]])]

\* row vector (length y) times the transposed matrix -> vector of length x
vxm_transposed(v, m, x, y) == [r \in 1..x |-> SumSeq([c \in 1..y |-> v[c] * m[r][c]])]

vec_add(u, v, dim) == [k \in 1..dim |-> u[k] + v[k]]

vec_sub(u, v, dim) == [k \in 1..dim |-> u[k] - v[k]]

vec_hadamard(u, v, dim) == [k \in 1..dim |-> u[k] * v[k]]

vec_copy(u, dim) == [k \in 1..dim |-> u[k]]

(***************************************************************************)
(* Activation functions.  A function is a record with a kind and its       *)
(* parameters.  exp is the fixed-point table ExpFix (unit LogisticOne).     *)
(***************************************************************************)
LogisticOne == 8

ExpFix(a) ==
    CASE a <= -3 -> 0
      [] a = -2 -> 1
      [] a = -1 -> 3
      [] a = 0 -> 8
      [] a = 1 -> 22
      [] a = 2 -> 59
      [] OTHER -> 161

Max(a, b) == IF a >= b THEN a ELSE b

Min(a, b) == IF a <= b THEN a ELSE b

Linear(slope, intercept) == [kind |-> "Linear", slope |-> slope, intercept |-> intercept]

Logistic(gain, bias, offset) == [kind |-> "Logistic", gain |-> gain, bias |-> bias, offset |-> offset]

ReLU(gain, bias, leak) == [kind |-> "ReLU", gain |-> gain, bias |-> bias, leak |-> leak]

\* function_creator: the lambda the interpreted forward applies, on one element
function_creator(f, x) ==
    CASE f.kind = "Linear" -> x * f.slope + f.intercept
      [] f.kind = "Logistic" ->
            (LogisticOne * LogisticOne) \div (LogisticOne + ExpFix((-f.gain) * (x - f.bias) + f.offset))
      [] OTHER -> Max(x - f.bias, 0) * f.gain + Min(x - f.bias, 0) * f.leak

\* bin_function_creator raises for every kind but Linear and Logistic
BinFunctionSupported(f) == f.kind \in {"Linear", "Logistic"}

\* bin_function_creator: modify_value of the generated activation kernel
bin_function_creator(f, x) ==
    CASE f.kind = "Linear" -> (x * f.slope) + f.intercept
      [] f.kind = "Logistic" ->
            LET gain == (-1) * f.gain
                arg  == (gain * (x - f.bias)) + f.offset
            IN  (LogisticOne * LogisticOne) \div (LogisticOne + ExpFix(arg))

\* bin_function_derivative_creator raises for every kind but Linear and Logistic
BinDerivativeSupported(f) == f.kind \in {"Linear", "Logistic"}

\* bin_function_derivative_creator: modify_value of the generated derivative kernel
bin_function_derivative_creator(f, x) ==
    CASE f.kind = "Linear" -> f.slope
      [] f.kind = "Logistic" ->
            LET gain == (-1) * f.gain
                arg  == (gain * (x - f.bias)) + f.offset
                ret  == (LogisticOne * LogisticOne) \div (LogisticOne + ExpFix(arg))
            IN  (ret * (LogisticOne - ret)) \div LogisticOne

\* _gen_inject_bin_function_call: the kernel bin_func applied to every element
\* (and the lambda of function_creator applied to a tensor)
ApplyElementwise(bin_func, f, v, dim) ==
    [k \in 1..dim |->
        CASE bin_func = "function_creator" -> function_creator(f, v[k])
          [] bin_func = "bin_function_creator" -> bin_function_creator(f, v[k])
          [] OTHER -> bin_function_derivative_creator(f, v[k])]

(***************************************************************************)
(* Node roles and the forward info built by __init__.                      *)
(***************************************************************************)
Width(g, n) == g.width[n]

\* NodeRole.INPUT / NodeRole.OUTPUT as resolved by the composition
input_nodes(g) == {n \in Nodes(g) : Predecessors(g, n) = {}}

output_nodes(g) == {n \in Nodes(g) : Successors(g, n) = {}}

\* index (from 1) of the execution set holding n
ExecSetIndex(sets, n) == CHOOSE i \in 1..Len(sets) : n \in sets[i]

\* path_afferents of n: the projections into n, in creation order
path_afferents(g, n) == SelectSeq([p \in 1..Len(g.proj) |-> p], LAMBDA p : Receiver(g, p) = n)

\* efferents of n: the projections out of n, in creation order
efferents(g, n) == SelectSeq([p \in 1..Len(g.proj) |-> p], LAMBDA p : Sender(g, p) = n)

\* keys of the dict `afferents` in insertion order: a key is inserted the first
\* time its sender is met; origin nodes (execution set 0) get no afferents
RECURSIVE DictKeys(_, _)
DictKeys(g, ps) ==
    IF ps = << >> THEN << >>
    ELSE LET front == DictKeys(g, SubSeq(ps, 1, Len(ps) - 1))
             k     == Sender(g, ps[Len(ps)])
         IN  IF k \in Range(front) THEN front ELSE Append(front, k)

afferents(g, sets, n) ==
    IF ExecSetIndex(sets, n) = 1 THEN << >> ELSE DictKeys(g, path_afferents(g, n))

\* afferents[input_node] = weights: a later projection from the same sender
\* overwrites the entry of an earlier one
AfferentProjection(g, n, a) ==
    LET ps == path_afferents(g, n)
        k  == CHOOSE i \in 1..Len(ps) :
                  /\ Sender(g, ps[i]) = a
                  /\ \A j \in (i + 1)..Len(ps) : Sender(g, ps[j]) # a
    IN  ps[k]

\* _get_afferent_node_index (from 1)
_get_afferent_node_index(g, sets, n, a) ==
    CHOOSE idx \in 1..Len(afferents(g, sets, n)) : afferents(g, sets, n)[idx] = a

\* _get_afferent_nodes
_get_afferent_nodes(g, sets, n) == afferents(g, sets, n)

\* the nodes that get a bias: not copying from psyneulink and not in set 0
HasBias(sets, pinit, n) == (~pinit) /\ ExecSetIndex(sets, n) # 1

(***************************************************************************)
(* Parameter struct: _get_param_initializer and _gen_get_node_weight_ptr.  *)
(* By reference a slot holds the address of a pytorch tensor, named here   *)
(* by its projection (weights) or its node (bias); with no_ref_pass it     *)
(* holds the values.  The bias entry is << >> for a node without bias.     *)
(***************************************************************************)
\* node_params of one node in the initializer; node names the component the
\* entry was built for
NodeParamsInitializer(g, sets, env, w, b, n) ==
    [node |-> n,
     weights |->
        [idx \in 1..Len(afferents(g, sets, n)) |->
            LET p == AfferentProjection(g, n, afferents(g, sets, n)[idx])
            IN  IF "no_ref_pass" \notin env THEN p ELSE w[p]],
     bias |->
        IF b[n] = << >> THEN << >>
        ELSE IF "no_ref_pass" \notin env THEN <<n>> ELSE <<b[n]>>]

\* the matrix the generated code reads through the pointer of (node, afferent_node)
NodeWeight(g, sets, env, params, w, n, a) ==
    LET slot == params[n].weights[_get_afferent_node_index(g, sets, n, a)]
    IN  IF "no_ref_pass" \notin env THEN w[slot] ELSE slot

\* faulty variant: dim_x is taken from the receiving side of the matrix
WeightDimX_OfReceiver(g, n, a) == Width(g, Receiver(g, AfferentProjection(g, n, a)))

\* dim_x, dim_y of _gen_get_node_weight_ptr: the shape of afferents[afferent_node]
WeightDimX(g, n, a) == Width(g, Sender(g, AfferentProjection(g, n, a)))

WeightDimY(g, n, a) == Width(g, Receiver(g, AfferentProjection(g, n, a)))

(***************************************************************************)
(* Iteration over an execution set (a Python set) and over the dict        *)
(* component_to_forward_info, filled set by set in __init__.               *)
(***************************************************************************)
SetIterations == {"ascending", "descending"}

Reverse(s) == [k \in 1..Len(s) |-> s[Len(s) + 1 - k]]

\* the sequence in which `for component in current_exec_set` visits the set S
SetIteration(S, it) == IF it = "ascending" THEN SortedSeq(S) ELSE Reverse(SortedSeq(S))

\* the order of component_to_forward_info.items()
(***************************************************************************)
(* forward: the interpreted forward method.                                *)
(***************************************************************************)
RECURSIVE SumAfferents(_, _, _, _, _, _, _)
SumAfferents(g, sets, w, vals, n, k, acc) ==
    IF k > Len(afferents(g, sets, n)) THEN acc
    ELSE LET a == afferents(g, sets, n)[k]
             m == w[AfferentProjection(g, n, a)]
         IN  SumAfferents(g, sets, w, vals, n, k + 1,
                 vec_add(acc, vxm(vals[a], m, Width(g, a), Width(g, n)), Width(g, n)))

\* the value computed for one component of execution set i
ForwardComponent(g, sets, w, b, vals, inputs, i, n) ==
    IF i = 1
    THEN ApplyElementwise("function_creator", g.fn[n], inputs[n], Width(g, n))
    ELSE LET summed == SumAfferents(g, sets, w, vals, n, 1, Zeros(Width(g, n)))
             biased == IF b[n] # << >> THEN vec_add(summed, b[n], Width(g, n)) ELSE summed
         IN  ApplyElementwise("function_creator", g.fn[n], biased, Width(g, n))

\* the components of set i one after the other: an input from the same set is
\* read from frozen_values, any other from component_to_forward_info
RECURSIVE ForwardSet(_, _, _, _, _, _, _, _, _)
ForwardSet(g, sets, w, b, vals, frozen_values, inputs, i, order) ==
    IF order = << >> THEN vals
    ELSE LET input_value == [a \in Nodes(g) |->
                                IF a \in sets[i] THEN frozen_values[a] ELSE vals[a]]
             new == ForwardComponent(g, sets, w, b, input_value, inputs, i, Head(order))
         IN  ForwardSet(g, sets, w, b, [vals EXCEPT ![Head(order)] = new], frozen_values,
                        inputs, i, Tail(order))

\* forward with every execution set iterated in the order it
RECURSIVE ForwardInOrder(_, _, _, _, _, _, _, _)
ForwardInOrder(g, sets, w, b, vals, inputs, i, it) ==
    IF i > Len(sets) THEN vals
    ELSE ForwardInOrder(g, sets, w, b,
             ForwardSet(g, sets, w, b, vals, vals, inputs, i, SetIteration(sets[i], it)),
             inputs, i + 1, it)

\* faulty variant: the value of every node is saved in outputs
OutputsOfForward_EveryNode(sets, vals) == vals

\* `if i == len(self.execution_sets) - 1: outputs[component] = value`: the dict
\* forward returns, which copy_outputs_to_psyneulink writes to its keys' components
OutputsOfForward(sets, vals) ==
    [n \in {c \in DOMAIN vals : ExecSetIndex(sets, c) = Len(sets)} |-> vals[n]]

\* forward with the sets iterated in ascending order
forward(g, sets, w, b, vals, inputs, i) ==
    ForwardInOrder(g, sets, w, b, vals, inputs, i, "ascending")

(***************************************************************************)
(* _gen_llvm_forward_function_body: the generated forward kernel.          *)
(* pw[n][idx] is the matrix read through _gen_get_node_weight_ptr.         *)
(***************************************************************************)
EffectiveParams(g, sets, env, params, w) ==
    [n \in Nodes(g) |->
        [idx \in 1..Len(afferents(g, sets, n)) |->
            NodeWeight(g, sets, env, params, w, n, afferents(g, sets, n)[idx])]]

\* faulty variant: every weighted input is added to what the value buffer holds
AccumulateWeightedInput_AlwaysAdd(is_set, val, weighted_inp, dim) ==
    vec_add(weighted_inp, val, dim)

\* is_set: the first weighted input is copied into value, later ones are added
AccumulateWeightedInput(is_set, val, weighted_inp, dim) ==
    IF is_set = FALSE THEN vec_copy(weighted_inp, dim) ELSE vec_add(weighted_inp, val, dim)

RECURSIVE WeightedInputs(_, _, _, _, _, _, _)
WeightedInputs(g, sets, pw, out, n, k, val) ==
    IF k > Len(afferents(g, sets, n)) THEN val
    ELSE LET a == afferents(g, sets, n)[k]
             weighted_inp == vxm(out[a], pw[n][k], WeightDimX(g, n, a), WeightDimY(g, n, a))
         IN  WeightedInputs(g, sets, pw, out, n, k + 1,
                 AccumulateWeightedInput(k > 1, val, weighted_inp, WeightDimY(g, n, a)))

\* faulty variant: every node takes its argument from the input region
CmpArg_AlwaysInput(g, sets, pw, arg_in, out, i, n) == arg_in[n]

\* the argument of the activation kernel (cmp_arg, retained as the z value)
CmpArg(g, sets, pw, arg_in, out, i, n) ==
    IF i = 1 THEN arg_in[n]
    ELSE WeightedInputs(g, sets, pw, out, n, 1, out[n])

\* one component: st = [out |-> arg_out, z |-> z_values]
ForwardBodyComponent(g, sets, pw, arg_in, st, i, n) ==
    LET cmp_arg == CmpArg(g, sets, pw, arg_in, st.out, i, n)
    IN  [out |-> [st.out EXCEPT ![n] =
                     ApplyElementwise("bin_function_creator", g.fn[n], cmp_arg, Width(g, n))],
         z   |-> [st.z EXCEPT ![n] = vec_copy(cmp_arg, Width(g, n))]]

RECURSIVE ForwardBodySet(_, _, _, _, _, _, _)
ForwardBodySet(g, sets, pw, arg_in, st, i, order) ==
    IF order = << >> THEN st
    ELSE ForwardBodySet(g, sets, pw, arg_in,
             ForwardBodyComponent(g, sets, pw, arg_in, st, i, Head(order)), i, Tail(order))

\* the body generated with every execution set iterated in the order it
RECURSIVE ForwardBodyInOrder(_, _, _, _, _, _, _)
ForwardBodyInOrder(g, sets, pw, arg_in, st, i, it) ==
    IF i > Len(sets) THEN st
    ELSE ForwardBodyInOrder(g, sets, pw, arg_in,
             ForwardBodySet(g, sets, pw, arg_in, st, i, SetIteration(sets[i], it)),
             i + 1, it)

\* the body generated with the sets iterated in ascending order
_gen_llvm_forward_function_body(g, sets, pw, arg_in, st, i) ==
    ForwardBodyInOrder(g, sets, pw, arg_in, st, i, "ascending")

\* generating the body raises when some node's function has no compiled kernel
ForwardBodyRaises(g) == \E n \in Nodes(g) : ~BinFunctionSupported(g.fn[n])

(***************************************************************************)
(* _gen_llvm_training_backprop: error computation and weight gradients of  *)
(* one sample, in the order in which the code was emitted (error_dict).    *)
(***************************************************************************)
LearningRate == 1

\* the value the host writes into an array it was given
HostValue == 9

\* MSELoss: loss value and loss differential of one output node
MSELossValue(output, target, dim) ==
    SumSeq([k \in 1..dim |-> (output[k] - target[k]) * (output[k] - target[k])])

MSELossDifferential(output, target, dim) == vec_sub(output, target, dim)

\* the receivers of node.efferents, one entry per projection
EfferentNodes(g, n) == [k \in 1..Len(efferents(g, n)) |-> Receiver(g, efferents(g, n)[k])]

\* sum over efferents of error (x) transposed weights; the first one is
\* written into error_val, the others are added to it
RECURSIVE PropagatedError(_, _, _, _, _, _, _)
PropagatedError(g, sets, pw, errs, n, k, acc) ==
    IF k > Len(EfferentNodes(g, n)) THEN acc
    ELSE LET e == EfferentNodes(g, n)[k]
             new_val == vxm_transposed(errs[e], pw[e][_get_afferent_node_index(g, sets, e, n)],
                                       WeightDimX(g, e, n), WeightDimY(g, e, n))
         IN  PropagatedError(g, sets, pw, errs, n, k + 1,
                 IF k = 1 THEN new_val ELSE vec_add(new_val, acc, Width(g, n)))

\* the error of one node; errs holds the errors computed before it
NodeError(g, sets, pw, out, z, targets, errs, n) ==
    LET activation_func_derivative ==
            ApplyElementwise("bin_function_derivative_creator", g.fn[n], z[n], Width(g, n))
    IN  IF n \in output_nodes(g)
        THEN vec_hadamard(activation_func_derivative,
                          MSELossDifferential(out[n], targets[n], Width(g, n)), Width(g, n))
        ELSE vec_hadamard(activation_func_derivative,
                          PropagatedError(g, sets, pw, errs, n, 1, Zeros(Width(g, n))),
                          Width(g, n))

RECURSIVE ComputeErrors(_, _, _, _, _, _, _, _)
ComputeErrors(g, sets, pw, out, z, targets, errs, order) ==
    IF order = << >> THEN errs
    ELSE ComputeErrors(g, sets, pw, out, z, targets,
             [errs EXCEPT ![Head(order)] =
                 NodeError(g, sets, pw, out, z, targets, errs, Head(order))],
             Tail(order))

\* total_loss: the sum over the output nodes, halved at the end
RECURSIVE SumLoss(_, _, _, _)
SumLoss(g, out, targets, order) ==
    IF order = << >> THEN 0
    ELSE (IF Head(order) \in output_nodes(g)
          THEN MSELossValue(out[Head(order)], targets[Head(order)], Width(g, Head(order)))
          ELSE 0) + SumLoss(g, out, targets, Tail(order))

TotalLoss(g, out, targets, order) == SumLoss(g, out, targets, order) \div 2

\* step 4: delta_w[node][afferent index][row][column] += a_val * d_val
OuterProductInto(old, a, d, x, y) ==
    [r \in 1..x |-> [c \in 1..y |-> old[r][c] + a[r] * d[c]]]

\* faulty variant: the gradient of the k-th afferent is written to the slot
\* counted from the other end of the node's afferents
WeightGradients_ReversedSlot(g, sets, out, errs, delta_w, order) ==
    [n \in Nodes(g) |->
        [idx \in 1..Len(afferents(g, sets, n)) |->
            IF n \in Range(order) /\ n \notin input_nodes(g)
            THEN LET a == _get_afferent_nodes(g, sets, n)[Len(afferents(g, sets, n)) + 1 - idx]
                 IN  OuterProductInto(ZeroMatrix(WeightDimX(g, n, a), WeightDimY(g, n, a)),
                                      out[a], errs[n],
                                      WeightDimX(g, n, a), WeightDimY(g, n, a))
            ELSE delta_w[n][idx]]]

WeightGradients(g, sets, out, errs, delta_w, order) ==
    [n \in Nodes(g) |->
        [idx \in 1..Len(afferents(g, sets, n)) |->
            IF n \in Range(order) /\ n \notin input_nodes(g)
            THEN LET a == _get_afferent_nodes(g, sets, n)[idx]
                 IN  OuterProductInto(delta_w[n][idx], out[a], errs[n],
                                      WeightDimX(g, n, a), WeightDimY(g, n, a))
            ELSE delta_w[n][idx]]]

(***************************************************************************)
(* Optimizer (SGDOptimizer): struct, zero_grad and step.                   *)
(***************************************************************************)
ZeroDeltaW(g, sets) ==
    [n \in Nodes(g) |->
        [idx \in 1..Len(afferents(g, sets, n)) |->
            ZeroMatrix(WeightDimX(g, n, afferents(g, sets, n)[idx]),
                       WeightDimY(g, n, afferents(g, sets, n)[idx]))]]

initialize_optimizer_struct(g, sets) == [delta_w |-> ZeroDeltaW(g, sets)]

\* faulty variant: zero_grad clears the whole struct, the moments and t included
zero_grad_WholeStruct(g, sets, os) ==
    [f \in DOMAIN os |-> IF f = "t" THEN 0 ELSE ZeroDeltaW(g, sets)]

\* faulty variant: zero_grad leaves the accumulators as the last sample left them
zero_grad_KeepsGradients(g, sets, os) == os

zero_grad(g, sets, os) == [os EXCEPT !.delta_w = ZeroDeltaW(g, sets)]

\* weight -= learning_rate * gradient, for every slot of the param struct
SGDStep(g, sets, pw, os) ==
    [n \in Nodes(g) |->
        [idx \in 1..Len(afferents(g, sets, n)) |->
            [r \in 1..Len(pw[n][idx]) |->
                [c \in 1..Len(pw[n][idx][r]) |->
                    pw[n][idx][r][c] - LearningRate * os.delta_w[n][idx][r][c]]]]]

(***************************************************************************)
(* Optimizer (AdamOptimizer), with beta1 = beta2 = 1/2 and epsilon = 0.    *)
(* The struct holds the step counter t and the two moments scaled by 2^t,  *)
(* which keeps them integers: m = 2^t * first moment, v = 2^t * second     *)
(* moment.  The bias-corrected quotient m^ / sqrt(v^) is then              *)
(* m / sqrt((2^t - 1) * v).                                                *)
(***************************************************************************)
RECURSIVE Pow2(_)
Pow2(k) == IF k = 0 THEN 1 ELSE 2 * Pow2(k - 1)

\* the largest r in lo..hi with r * r <= x
RECURSIVE IsqrtBetween(_, _, _)
IsqrtBetween(x, lo, hi) ==
    IF lo = hi THEN lo
    ELSE LET mid == (lo + hi + 1) \div 2
         IN  IF mid * mid <= x THEN IsqrtBetween(x, mid, hi)
             ELSE IsqrtBetween(x, lo, mid - 1)

Isqrt(x) == IsqrtBetween(x, 0, Min(x, 46340))

AdamInitialize(g, sets) ==
    [delta_w |-> ZeroDeltaW(g, sets), m |-> ZeroDeltaW(g, sets),
     v |-> ZeroDeltaW(g, sets), t |-> 0]

\* t += 1; m = b1 * m + (1 - b1) * gradient; v = b2 * v + (1 - b2) * gradient^2
AdamMoments(g, sets, os) ==
    [delta_w |-> os.delta_w,
     m |-> [n \in Nodes(g) |->
              [idx \in 1..Len(os.m[n]) |->
                  [r \in 1..Len(os.m[n][idx]) |->
                      [c \in 1..Len(os.m[n][idx][r]) |->
                          os.m[n][idx][r][c] + Pow2(os.t) * os.delta_w[n][idx][r][c]]]]],
     v |-> [n \in Nodes(g) |->
              [idx \in 1..Len(os.v[n]) |->
                  [r \in 1..Len(os.v[n][idx]) |->
                      [c \in 1..Len(os.v[n][idx][r]) |->
                          os.v[n][idx][r][c] +
                          Pow2(os.t) * os.delta_w[n][idx][r][c] * os.delta_w[n][idx][r][c]]]]],
     t |-> os.t + 1]

\* learning_rate * m^ / (sqrt(v^) + epsilon), rounded towards zero
AdamUpdate(m, v, t) ==
    IF m = 0 THEN 0
    ELSE LET d == Isqrt((Pow2(t) - 1) * v)
         IN  IF m < 0 THEN 0 - ((LearningRate * (0 - m)) \div d)
             ELSE (LearningRate * m) \div d

\* AdamOptimizer.step: the new weights and the new optimizer struct
AdamStep(g, sets, pw, os) ==
    LET nos == AdamMoments(g, sets, os)
    IN  [params |->
            [n \in Nodes(g) |->
                [idx \in 1..Len(afferents(g, sets, n)) |->
                    [r \in 1..Len(pw[n][idx]) |->
                        [c \in 1..Len(pw[n][idx][r]) |->
                            pw[n][idx][r][c] -
                            AdamUpdate(nos.m[n][idx][r][c], nos.v[n][idx][r][c], nos.t)]]]],
         os |-> nos]

\* the pytorch tensors after the generated code stored pw through the pointers
StoreThroughPointers(g, sets, w, pw) ==
    [p \in Projections(g) |->
        IF \E idx \in 1..Len(afferents(g, sets, Receiver(g, p))) :
              AfferentProjection(g, Receiver(g, p), afferents(g, sets, Receiver(g, p))[idx]) = p
        THEN pw[Receiver(g, p)][_get_afferent_node_index(g, sets, Receiver(g, p), Sender(g, p))]
        ELSE w[p]]

\* projection p owns a slot of the param struct and of delta_w: it is the
\* projection its sender's key of `afferents` ended up with
HasSlot(g, sets, p) ==
    /\ Sender(g, p) \in Range(afferents(g, sets, Receiver(g, p)))
    /\ AfferentProjection(g, Receiver(g, p), Sender(g, p)) = p

SlotIndex(g, sets, p) == _get_afferent_node_index(g, sets, Receiver(g, p), Sender(g, p))

\* the weight matrix of projection p: the one the kernel reads when p owns a
\* slot, the pytorch tensor of p otherwise
EdgeWeight(g, sets, pw, w, p) ==
    IF HasSlot(g, sets, p) THEN pw[Receiver(g, p)][SlotIndex(g, sets, p)] ELSE w[p]

\* the bias of node n as the param struct holds it: << >> when n has none
EffectiveBias(env, params, b, n) ==
    IF params[n].bias = << >> THEN << >>
    ELSE IF "no_ref_pass" \notin env THEN b[params[n].bias[1]] ELSE params[n].bias[1]

RECURSIVE ForwardInfoOrder(_, _)
ForwardInfoOrder(sets, it) ==
    IF sets = << >> THEN << >>
    ELSE SetIteration(Head(sets), it) \o ForwardInfoOrder(Tail(sets), it)

(***************************************************************************)
(* _get_param_struct_type: param struct shape [node index][0][afferent     *)
(* index] for weights, [node index][1] for the bias.  A slot type is i64   *)
(* (a stored address) or an array type; `of` names the tensor (projection  *)
(* or node) the slot was derived from.                                     *)
(***************************************************************************)
SlotType(env, x, y, of) ==
    IF "no_ref_pass" \notin env THEN [ty |-> "i64", x |-> 0, y |-> 0, of |-> of]
    ELSE [ty |-> "array", x |-> x, y |-> y, of |-> of]

\* faulty variant: the type gets a bias slot for every node, biased or not
NodeParamsType_BiasForEveryNode(g, sets, env, b, n) ==
    [set |-> TRUE,
     node |-> n,
     weights |->
        [idx \in 1..Len(afferents(g, sets, n)) |->
            LET a == afferents(g, sets, n)[idx]
            IN  SlotType(env, WeightDimX(g, n, a), WeightDimY(g, n, a),
                         AfferentProjection(g, n, a))],
     bias |-> <<SlotType(env, 1, Width(g, n), n)>>]

\* node_params of one node: the weight array and, when it has a bias, the bias;
\* node names the component the entry was built for
NodeParamsType(g, sets, env, b, n) ==
    [set |-> TRUE,
     node |-> n,
     weights |->
        [idx \in 1..Len(afferents(g, sets, n)) |->
            LET a == afferents(g, sets, n)[idx]
            IN  SlotType(env, WeightDimX(g, n, a), WeightDimY(g, n, a),
                         AfferentProjection(g, n, a))],
     bias |-> IF b[n] = << >> THEN << >> ELSE <<SlotType(env, 1, Width(g, n), n)>>]

\* faulty variant: an entry is stored at its position in the iteration
ParamListIndex_ByPosition(order, k) == k

\* param_list[node_idx]: the entry of the k-th item goes to its node index
ParamListIndex(order, k) == order[k]

RECURSIVE StructTypeFill(_, _, _, _, _, _, _)
StructTypeFill(g, sets, env, b, order, k, param_list) ==
    IF k > Len(order) THEN param_list
    ELSE StructTypeFill(g, sets, env, b, order, k + 1,
             [param_list EXCEPT ![ParamListIndex(order, k)] =
                 NodeParamsType(g, sets, env, b, order[k])])

_get_param_struct_type(g, sets, env, b, order) ==
    StructTypeFill(g, sets, env, b, order, 1,
        [n \in Nodes(g) |-> [set |-> FALSE, node |-> 0, weights |-> << >>, bias |-> << >>]])

\* param_list = [None]*len(nodes), then param_list[node_idx] = node_params for
\* every item of component_to_forward_info; an entry never assigned has node 0
RECURSIVE InitializerFill(_, _, _, _, _, _, _, _)
InitializerFill(g, sets, env, w, b, order, k, param_list) ==
    IF k > Len(order) THEN param_list
    ELSE InitializerFill(g, sets, env, w, b, order, k + 1,
             [param_list EXCEPT ![ParamListIndex(order, k)] =
                 NodeParamsInitializer(g, sets, env, w, b, order[k])])

_get_param_initializer(g, sets, env, w, b) ==
    InitializerFill(g, sets, env, w, b, ForwardInfoOrder(sets, "ascending"), 1,
        [n \in Nodes(g) |-> [node |-> 0, weights |-> << >>, bias |-> << >>]])

(***************************************************************************)
(* Inputs drawn by the model: graphs, initial matrices, samples.           *)
(***************************************************************************)
\* the matrix of projection p held by the host (proj_matrix), and the draw
\* of torch.rand for it, both of shape [width(sender) x width(receiver)]
MatrixOf(g, p, seed) ==
    [r \in 1..Width(g, Sender(g, p)) |->
        [c \in 1..Width(g, Receiver(g, p)) |-> ((seed + p + 2 * r + c) % 3) - 1]]

\* sample s: the input vector of every node and the target vector of every node
SampleInput(g, s) == [n \in Nodes(g) |-> [k \in 1..Width(g, n) |-> (s + n + k) % 2]]

SampleTarget(g, s) == [n \in Nodes(g) |-> [k \in 1..Width(g, n) |-> (s + k) % 2]]

Lin == Linear(1, 0)

Neg == Linear(-1, 0)

Sig == Logistic(1, 0, 0)

GraphFamily ==
    { \* chain 2 -> 2 -> 1, Linear then Logistic
      [n |-> 3, proj |-> <<(<<1, 2>>), (<<2, 3>>)>>, width |-> <<2, 2, 1>>,
       fn |-> <<Lin, Lin, Sig>>],
      \* skip connection, the skip projection created before the long path
      [n |-> 4, proj |-> <<(<<1, 2>>), (<<2, 4>>), (<<2, 3>>), (<<3, 4>>)>>,
       width |-> <<1, 1, 1, 1>>, fn |-> <<Lin, Sig, Neg, Sig>>],
      \* skip connection, the skip projection created last
      [n |-> 4, proj |-> <<(<<1, 2>>), (<<2, 3>>), (<<3, 4>>), (<<2, 4>>)>>,
       width |-> <<1, 2, 1, 1>>, fn |-> <<Lin, Sig, Neg, Sig>>],
      \* two projections between the same pair of nodes
      [n |-> 3, proj |-> <<(<<1, 2>>), (<<2, 3>>), (<<2, 3>>)>>, width |-> <<1, 1, 1>>,
       fn |-> <<Lin, Neg, Sig>>],
      \* two origin nodes, one layer
      [n |-> 3, proj |-> <<(<<1, 3>>), (<<2, 3>>)>>, width |-> <<1, 2, 2>>,
       fn |-> <<Lin, Lin, Neg>>],
      \* a ReLU node
      [n |-> 2, proj |-> <<(<<1, 2>>)>>, width |-> <<2, 1>>,
       fn |-> <<Lin, ReLU(1, 0, 0)>>],
      \* a recurrent pair behind an origin node
      [n |-> 3, proj |-> <<(<<1, 2>>), (<<2, 3>>), (<<3, 2>>)>>, width |-> <<1, 1, 1>>,
       fn |-> <<Lin, Lin, Lin>>] }

(***************************************************************************)
(* get_weights_for_projections.  A numpy array is a record: `base` tells    *)
(* whose memory it uses (the tensor's, or its own), `array` is its content. *)
(***************************************************************************)
\* weights.detach().numpy(): an array on the memory of the tensor of projection p
detach_numpy(w, p) == [base |-> "tensor", array |-> w[p]]

\* ndarray.copy(): the same content in memory of its own
numpy_copy(a) == [base |-> "own", array |-> a.array]

\* faulty variant: the arrays are returned without .copy()
get_weights_for_projections_NoCopy(g, w) ==
    [p \in Projections(g) |-> detach_numpy(w, p)]

get_weights_for_projections(g, w) ==
    [p \in Projections(g) |-> numpy_copy(detach_numpy(w, p))]

\* what the arrays hold once the tensors hold w: an array on a tensor's memory
\* shows the tensor's content
SharedMemory(arrays, w) ==
    [p \in DOMAIN arrays |->
        IF arrays[p].base = "tensor" THEN [arrays[p] EXCEPT !.array = w[p]]
        ELSE arrays[p]]

(***************************************************************************)
(* Actions                                                                 *)
(***************************************************************************)
schedVars == <<sched_pc, execution_sets, cyclic_node>>

configVars == <<graph, param_init_from_pnl, debug_env, loss_spec, optimizer_type,
               invocations, target_nodes>>

torchVars == <<weights, biases, value, fwd_input, torch_steps, weights_in_numpy, outputs>>

binVars == <<model_params, model_input, data, z_values, fwd_kernel, bin_input>>

genVars == <<train_kernel, backprop_queue, error_dict>>

compileVars == <<param_struct_type, compile_attempts, _cached_param_list, weight_ptr_mode>>

runVars == <<train_pc, epochs, batch, epoch_idx, input_idx, optimizer_struct, error_val,
             total_loss, params_at_start, train_calls, forward_runs, loss_values>>

vars == <<graph, param_init_from_pnl, debug_env, sched_pc, execution_sets, cyclic_node,
          weights, biases, value, fwd_input, torch_steps, weights_in_numpy, outputs,
          model_params, model_input, data, z_values,
          fwd_kernel, bin_input, train_kernel, backprop_queue, error_dict, train_pc,
          epochs, batch, epoch_idx, input_idx, optimizer_struct, error_val, total_loss,
          params_at_start, train_calls, forward_runs, loss_values, param_struct_type,
          loss_spec, optimizer_type,
          compile_attempts, invocations, _cached_param_list, weight_ptr_mode,
          target_nodes>>

SchedulerExtractSet ==
    /\ sched_pc = "run"
    /\ ReadyNodes(graph, Assigned) # {}
    /\ execution_sets' = Append(execution_sets, ReadyNodes(graph, Assigned))
    /\ UNCHANGED <<sched_pc, cyclic_node>>
    /\ UNCHANGED <<configVars, torchVars, binVars, genVars, runVars>>
    /\ UNCHANGED compileVars

SchedulerFinish ==
    /\ sched_pc = "run"
    /\ Remaining = {}
    /\ sched_pc' = "done"
    /\ UNCHANGED <<execution_sets, cyclic_node>>
    /\ UNCHANGED <<configVars, torchVars, binVars, genVars, runVars>>
    /\ UNCHANGED compileVars

SchedulerCyclicGraphError ==
    /\ sched_pc = "run"
    /\ Remaining # {}
    /\ ReadyNodes(graph, Assigned) = {}
    /\ \E n \in CycleParticipants(graph, Assigned) :
          cyclic_node' = n
    /\ sched_pc' = "CyclicGraphError"
    /\ execution_sets' = << >>
    /\ UNCHANGED <<configVars, torchVars, binVars, genVars, runVars>>
    /\ UNCHANGED compileVars

Constructed == value # << >>

\* PytorchModelCreator.__init__
Construct ==
    /\ sched_pc = "done"
    /\ ~Constructed
    /\ \E seed \in Seeds :
          weights' = [p \in Projections(graph) |->
                         IF param_init_from_pnl THEN MatrixOf(graph, p, 0)
                         ELSE MatrixOf(graph, p, seed)]
    /\ biases' = [n \in Nodes(graph) |->
                     IF HasBias(execution_sets, param_init_from_pnl, n)
                     THEN Zeros(Width(graph, n)) ELSE << >>]
    /\ value' = [n \in Nodes(graph) |-> Zeros(Width(graph, n))]
    /\ model_input' = [n \in Nodes(graph) |-> Zeros(Width(graph, n))]
    /\ data' = [n \in Nodes(graph) |-> Zeros(Width(graph, n))]
    /\ z_values' = [n \in Nodes(graph) |-> Zeros(Width(graph, n))]
    /\ error_val' = [n \in Nodes(graph) |-> Zeros(Width(graph, n))]
    /\ UNCHANGED <<fwd_input, torch_steps, weights_in_numpy, outputs, model_params, fwd_kernel,
                   bin_input>>
    /\ UNCHANGED <<train_pc, epochs, batch, epoch_idx, input_idx, optimizer_struct,
                   total_loss, params_at_start, train_calls, forward_runs, loss_values>>
    /\ UNCHANGED <<configVars, schedVars, genVars>>
    /\ UNCHANGED compileVars

Quiescent == Constructed /\ train_pc = "idle" /\ train_kernel # "gen"

\* faulty variant: forward consumes the biases it added and leaves them zero
Forward_ClearsBiases(s) ==
    /\ Quiescent
    /\ \E it \in SetIterations :
          value' = ForwardInOrder(graph, execution_sets, weights, biases, value,
                                  SampleInput(graph, s), 1, it)
    /\ outputs' = OutputsOfForward(execution_sets, value')
    /\ fwd_input' = s
    /\ biases' = [n \in Nodes(graph) |-> [k \in 1..Len(biases[n]) |-> 0]]
    /\ UNCHANGED <<weights, torch_steps, weights_in_numpy>>
    /\ UNCHANGED <<configVars, schedVars, binVars, genVars, runVars>>
    /\ UNCHANGED compileVars

\* forward(inputs): the interpreted forward method on sample s
Forward(s) ==
    /\ Quiescent
    /\ \E it \in SetIterations :
          value' = ForwardInOrder(graph, execution_sets, weights, biases, value,
                                  SampleInput(graph, s), 1, it)
    /\ outputs' = OutputsOfForward(execution_sets, value')
    /\ fwd_input' = s
    /\ UNCHANGED <<weights, biases, torch_steps, weights_in_numpy>>
    /\ UNCHANGED <<configVars, schedVars, binVars, genVars, runVars>>
    /\ UNCHANGED compileVars

\* the host's pytorch optimizer updates the registered parameters in place
TorchOptimizerStep(d) ==
    /\ Quiescent
    /\ torch_steps < MaxTorchSteps
    /\ weights' = [p \in Projections(graph) |->
                      [r \in 1..Len(weights[p]) |->
                          [c \in 1..Len(weights[p][r]) |-> weights[p][r][c] + d]]]
    /\ biases' = [n \in Nodes(graph) |->
                     [k \in 1..Len(biases[n]) |-> biases[n][k] + d]]
    /\ torch_steps' = torch_steps + 1
    /\ weights_in_numpy' = SharedMemory(weights_in_numpy, weights')
    /\ fwd_input' = 0
    /\ bin_input' = 0
    /\ UNCHANGED <<value, outputs>>
    /\ UNCHANGED <<model_params, model_input, data, z_values, fwd_kernel>>
    /\ UNCHANGED <<configVars, schedVars, genVars, runVars>>
    /\ UNCHANGED compileVars

\* the host calls get_weights_for_projections and keeps the returned dict
GetWeightsForProjections ==
    /\ Quiescent
    /\ weights_in_numpy' = get_weights_for_projections(graph, weights)
    /\ weights_in_numpy' # weights_in_numpy
    /\ UNCHANGED <<weights, biases, value, fwd_input, torch_steps, outputs>>
    /\ UNCHANGED <<configVars, schedVars, binVars, genVars, runVars>>
    /\ UNCHANGED compileVars

\* the host stores HostValue into entry [0][0] of the returned array of projection p
HostWritesReturned(p) ==
    /\ Quiescent
    /\ weights_in_numpy # << >>
    /\ weights_in_numpy[p].array[1][1] # HostValue
    /\ LET written == [weights_in_numpy[p].array EXCEPT ![1][1] = HostValue]
       IN  /\ weights_in_numpy' =
                 [weights_in_numpy EXCEPT ![p] = [@ EXCEPT !.array = written]]
           /\ weights' = IF weights_in_numpy[p].base = "tensor"
                         THEN [weights EXCEPT ![p] = written]
                         ELSE weights
    /\ UNCHANGED <<biases, value, fwd_input, torch_steps, outputs>>
    /\ UNCHANGED <<configVars, schedVars, binVars, genVars, runVars>>
    /\ UNCHANGED compileVars

\* `"no_ref_pass" not in debug_env`: addresses of the tensors, or their values
OwnershipMode(env) == IF "no_ref_pass" \notin env THEN "ref" ELSE "copy"

\* `if self._cached_param_list is None`: the list is built once, in the current mode
CachedAfterCall ==
    IF _cached_param_list = "none" THEN OwnershipMode(debug_env) ELSE _cached_param_list

\* the param struct is filled from _get_param_initializer when a kernel is instantiated
InstantiateParams ==
    IF model_params = << >>
    THEN _get_param_initializer(graph, execution_sets, debug_env, weights, biases)
    ELSE model_params

\* ctx.get_param_struct_type(self): the struct type is computed from the current
\* debug_env, visiting component_to_forward_info in the order of its items
StructTypeComputed(next_type) ==
    \E it \in SetIterations :
        next_type = _get_param_struct_type(graph, execution_sets, debug_env, biases,
                                           ForwardInfoOrder(execution_sets, it))

\* the host generates a kernel it has none of, or again after a failed generation
MayGenerate(kernel) ==
    \/ kernel = "none"
    \/ kernel = "error" /\ compile_attempts < MaxCompileAttempts

AttemptsAfter(kernel) ==
    IF kernel = "error" THEN compile_attempts + 1 ELSE compile_attempts

\* `raise Exception("OPTIMIZER TYPE" ...)` and `raise Exception("LOSS TYPE" ...)`
TrainingSetupRaises ==
    \/ optimizer_type \notin {"adam", "sgd"}
    \/ loss_spec # "mse"

\* _gen_llvm_function: generate the forward kernel
GenLLVMFunction ==
    /\ Quiescent
    /\ MayGenerate(fwd_kernel)
    /\ compile_attempts' = AttemptsAfter(fwd_kernel)
    /\ StructTypeComputed(param_struct_type')
    /\ IF ForwardBodyRaises(graph)
       THEN /\ fwd_kernel' = "error"
            /\ UNCHANGED <<model_params, _cached_param_list, weight_ptr_mode>>
       ELSE /\ fwd_kernel' = "ok"
            /\ model_params' = InstantiateParams
            /\ _cached_param_list' = CachedAfterCall
            /\ weight_ptr_mode' = [weight_ptr_mode EXCEPT !.fwd = OwnershipMode(debug_env)]
    /\ UNCHANGED <<model_input, data, z_values, bin_input>>
    /\ UNCHANGED <<configVars, schedVars, torchVars, genVars, runVars>>

PW == EffectiveParams(graph, execution_sets, debug_env, model_params, weights)

\* one run of the generated forward kernel on sample s
RunForwardKernel(s) ==
    /\ Quiescent
    /\ fwd_kernel = "ok"
    /\ \E it \in SetIterations :
          LET arg_in == SampleInput(graph, s)
              st == ForwardBodyInOrder(graph, execution_sets, PW, arg_in,
                                       [out |-> data, z |-> z_values], 1, it)
          IN  /\ model_input' = arg_in
              /\ data' = st.out
    /\ bin_input' = s
    /\ UNCHANGED <<model_params, z_values, fwd_kernel>>
    /\ UNCHANGED <<configVars, schedVars, torchVars, genVars, runVars>>
    /\ UNCHANGED compileVars

(***************************************************************************)
(* Generation of the training kernel (_gen_llvm_training_function_body,    *)
(* _gen_llvm_training_backprop).  The work queue runs while the code is    *)
(* emitted; error_dict records the order of the emitted error code.        *)
(***************************************************************************)
\* optimizer and loss set up, forward body emitted, queue seeded with the output nodes
GenTrainingStart ==
    /\ Quiescent
    /\ MayGenerate(train_kernel)
    /\ compile_attempts' = AttemptsAfter(train_kernel)
    /\ StructTypeComputed(param_struct_type')
    /\ IF TrainingSetupRaises \/ ForwardBodyRaises(graph)
       THEN /\ train_kernel' = "error"
            /\ UNCHANGED <<backprop_queue, error_dict, weight_ptr_mode>>
       ELSE /\ train_kernel' = "gen"
            /\ backprop_queue' = SortedSeq(output_nodes(graph))
            /\ error_dict' = << >>
            /\ weight_ptr_mode' = [weight_ptr_mode EXCEPT !.train = OwnershipMode(debug_env)]
    /\ UNCHANGED _cached_param_list
    /\ UNCHANGED <<configVars, schedVars, torchVars, binVars, runVars>>

\* faulty variant: a node that has its error already is processed again
SkipsNode_OnlyInputs(node) == node \in input_nodes(graph)

\* the popped node is skipped: it has its error already, or it is an input node
SkipsNode(node) == node \in Range(error_dict) \/ node \in input_nodes(graph)

\* error_dict[efferent_node] of an efferent that has no entry yet
MissingEfferentError(node) ==
    /\ node \notin output_nodes(graph)
    /\ \E k \in 1..Len(EfferentNodes(graph, node)) :
          EfferentNodes(graph, node)[k] \notin Range(error_dict) \cup {node}

\* one iteration of `while(len(backprop_queue) > 0)`
GenBackpropPop ==
    /\ train_kernel = "gen"
    /\ backprop_queue # << >>
    /\ LET node == Head(backprop_queue)
       IN  IF SkipsNode(node)
           THEN /\ backprop_queue' = Tail(backprop_queue)
                /\ UNCHANGED <<train_kernel, error_dict>>
           ELSE /\ backprop_queue' = Tail(backprop_queue) \o
                                     _get_afferent_nodes(graph, execution_sets, node)
                /\ IF ~BinDerivativeSupported(graph.fn[node])
                   THEN train_kernel' = "error" /\ UNCHANGED error_dict
                   ELSE /\ error_dict' = Append(error_dict, node)
                        /\ train_kernel' =
                              IF MissingEfferentError(node) THEN "KeyError" ELSE "gen"
    /\ UNCHANGED <<configVars, schedVars, torchVars, binVars, runVars>>
    /\ UNCHANGED compileVars

\* the queue is empty: gradient code and optimizer step emitted, kernel ready
GenTrainingFinish ==
    /\ train_kernel = "gen"
    /\ backprop_queue = << >>
    /\ train_kernel' = "ok"
    /\ model_params' = InstantiateParams
    /\ _cached_param_list' = CachedAfterCall
    /\ UNCHANGED <<backprop_queue, error_dict>>
    /\ UNCHANGED <<model_input, data, z_values, fwd_kernel, bin_input>>
    /\ UNCHANGED <<configVars, schedVars, torchVars, runVars>>
    /\ UNCHANGED <<param_struct_type, compile_attempts, weight_ptr_mode>>

\* pnlvm.debug._update(): the host changes PNL_LLVM_DEBUG between two calls
DebugUpdate ==
    /\ train_kernel # "gen"
    /\ train_pc = "idle"
    /\ debug_env' = IF "no_ref_pass" \in debug_env THEN {} ELSE {"no_ref_pass"}
    /\ UNCHANGED <<graph, param_init_from_pnl, loss_spec, optimizer_type, invocations,
                   target_nodes>>
    /\ UNCHANGED <<schedVars, torchVars, binVars, genVars, runVars>>
    /\ UNCHANGED compileVars

(***************************************************************************)
(* The running training kernel: epoch_loop { input_loop { zero_grad;       *)
(* backprop(input_idx); optimizer_step } }.                                *)
(***************************************************************************)
\* a batch: n samples, all the same (stride 0) or taken in turn (stride 1)
Batches ==
    {[i \in 1..n |-> 1 + ((s + i * stride) % Cardinality(SampleIds))] :
        n \in 1..MaxInputs, s \in SampleIds, stride \in {0, 1}}

num_inputs == Len(batch)

\* the kernel is called on the stimuli (epochs, batch): the optimizer struct is
\* allocated and initialized
TrainInvoke ==
    /\ Quiescent
    /\ train_kernel = "ok"
    /\ train_calls < invocations
    /\ epoch_idx' = 0
    /\ input_idx' = 0
    /\ optimizer_struct' = IF optimizer_type = "adam"
                           THEN AdamInitialize(graph, execution_sets)
                           ELSE initialize_optimizer_struct(graph, execution_sets)
    /\ params_at_start' = PW
    /\ train_calls' = train_calls + 1
    /\ forward_runs' = << >>
    /\ loss_values' = << >>
    /\ train_pc' = "zero_grad"
    /\ UNCHANGED <<epochs, batch, error_val, total_loss>>
    /\ UNCHANGED <<configVars, schedVars, torchVars, binVars, genVars>>
    /\ UNCHANGED compileVars

\* optimizer.zero_grad
ZeroGrad ==
    /\ train_pc = "zero_grad"
    /\ optimizer_struct' = zero_grad(graph, execution_sets, optimizer_struct)
    /\ train_pc' = "copy_input"
    /\ UNCHANGED <<epochs, batch, epoch_idx, input_idx, error_val, total_loss,
                   params_at_start, train_calls, forward_runs, loss_values>>
    /\ UNCHANGED <<configVars, schedVars, torchVars, binVars, genVars>>
    /\ UNCHANGED compileVars

\* backprop, step 1: the input of sample input_idx is copied to the input region
BackpropCopyInput ==
    /\ train_pc = "copy_input"
    /\ model_input' = [n \in Nodes(graph) |->
                          IF n \in input_nodes(graph)
                          THEN vec_copy(SampleInput(graph, batch[input_idx + 1])[n],
                                        Width(graph, n))
                          ELSE model_input[n]]
    /\ train_pc' = "forward"
    /\ UNCHANGED <<model_params, data, z_values, fwd_kernel, bin_input>>
    /\ UNCHANGED <<epochs, batch, epoch_idx, input_idx, optimizer_struct, error_val,
                   total_loss, params_at_start, train_calls, forward_runs, loss_values>>
    /\ UNCHANGED <<configVars, schedVars, torchVars, genVars>>
    /\ UNCHANGED compileVars

\* backprop, step 2: the forward body with store_z_values=True
BackpropForward ==
    /\ train_pc = "forward"
    /\ \E it \in SetIterations :
          LET st == ForwardBodyInOrder(graph, execution_sets, PW, model_input,
                                       [out |-> data, z |-> z_values], 1, it)
          IN  /\ data' = st.out
              /\ z_values' = st.z
    /\ train_pc' = "compute_errors"
    /\ bin_input' = 0
    /\ UNCHANGED <<model_params, model_input, fwd_kernel>>
    /\ UNCHANGED <<epochs, batch, epoch_idx, input_idx, optimizer_struct, error_val,
                   total_loss, params_at_start, train_calls>>
    /\ forward_runs' = Append(forward_runs, <<epoch_idx, input_idx>>)
    /\ UNCHANGED loss_values
    /\ UNCHANGED <<configVars, schedVars, torchVars, genVars>>
    /\ UNCHANGED compileVars

CurrentTargets == SampleTarget(graph, batch[input_idx + 1])

\* backprop, step 3: the errors, in the order the queue emitted them
BackpropComputeErrors ==
    /\ train_pc = "compute_errors"
    /\ error_val' = ComputeErrors(graph, execution_sets, PW, data, z_values,
                                  CurrentTargets, error_val, error_dict)
    /\ total_loss' = TotalLoss(graph, data, CurrentTargets, error_dict)
    /\ train_pc' = "weight_gradients"
    /\ UNCHANGED <<epochs, batch, epoch_idx, input_idx, optimizer_struct,
                   params_at_start, train_calls, forward_runs>>
    /\ loss_values' = Append(loss_values,
                              SumLoss(graph, data, CurrentTargets, error_dict))
    /\ UNCHANGED <<configVars, schedVars, torchVars, binVars, genVars>>
    /\ UNCHANGED compileVars

\* backprop, step 4: the weight gradients are added to delta_w
BackpropWeightGradients ==
    /\ train_pc = "weight_gradients"
    /\ optimizer_struct' =
          [optimizer_struct EXCEPT !.delta_w =
              WeightGradients(graph, execution_sets, data, error_val,
                              optimizer_struct.delta_w, error_dict)]
    /\ train_pc' = "optimizer_step"
    /\ UNCHANGED <<epochs, batch, epoch_idx, input_idx, error_val, total_loss,
                   params_at_start, train_calls, forward_runs, loss_values>>
    /\ UNCHANGED <<configVars, schedVars, torchVars, binVars, genVars>>
    /\ UNCHANGED compileVars

\* faulty variant: the kernel returns after the first epoch
NextPosition_OneEpoch ==
    IF input_idx + 1 < num_inputs
    THEN [pc |-> "zero_grad", epoch |-> epoch_idx, input |-> input_idx + 1]
    ELSE [pc |-> "idle", epoch |-> epoch_idx, input |-> input_idx]

\* the position after the optimizer step: next input, next epoch, or return
NextPosition ==
    IF input_idx + 1 < num_inputs
    THEN [pc |-> "zero_grad", epoch |-> epoch_idx, input |-> input_idx + 1]
    ELSE IF epoch_idx + 1 < epochs
         THEN [pc |-> "zero_grad", epoch |-> epoch_idx + 1, input |-> 0]
         ELSE [pc |-> "idle", epoch |-> epoch_idx, input |-> input_idx]

\* optimizer_step(optimizer_struct, model_params), then the loop counters advance
OptimizerStep ==
    /\ train_pc = "optimizer_step"
    /\ optimizer_struct' = IF optimizer_type = "adam"
                           THEN AdamStep(graph, execution_sets, PW, optimizer_struct).os
                           ELSE optimizer_struct
    /\ LET new == IF optimizer_type = "adam"
                  THEN AdamStep(graph, execution_sets, PW, optimizer_struct).params
                  ELSE SGDStep(graph, execution_sets, PW, optimizer_struct)
       IN  IF "no_ref_pass" \notin debug_env
           THEN /\ weights' = StoreThroughPointers(graph, execution_sets, weights, new)
                /\ UNCHANGED model_params
           ELSE /\ model_params' = [n \in Nodes(graph) |->
                                       [model_params[n] EXCEPT !.weights = new[n]]]
                /\ UNCHANGED weights
    /\ train_pc' = NextPosition.pc
    /\ epoch_idx' = NextPosition.epoch
    /\ input_idx' = NextPosition.input
    /\ fwd_input' = 0
    /\ bin_input' = 0
    /\ weights_in_numpy' = SharedMemory(weights_in_numpy, weights')
    /\ UNCHANGED <<biases, value, torch_steps, outputs>>
    /\ UNCHANGED <<model_input, data, z_values, fwd_kernel>>
    /\ UNCHANGED <<epochs, batch, error_val, total_loss, params_at_start, train_calls,
                   forward_runs, loss_values>>
    /\ UNCHANGED <<configVars, schedVars, genVars>>
    /\ UNCHANGED compileVars

\* one iteration of input_loop on sample s, started from the weights pw:
\* zero_grad, backprop, optimizer_step; the result is the updated weights
InputLoopIteration(g, sets, pw, s, order) ==
    LET zero == [n \in Nodes(g) |-> Zeros(Width(g, n))]
        st   == _gen_llvm_forward_function_body(g, sets, pw, SampleInput(g, s),
                                                [out |-> zero, z |-> zero], 1)
        errs == ComputeErrors(g, sets, pw, st.out, st.z, SampleTarget(g, s), zero, order)
        dw   == WeightGradients(g, sets, st.out, errs, ZeroDeltaW(g, sets), order)
    IN  SGDStep(g, sets, pw, [delta_w |-> dw])

(***************************************************************************)
(* Specifications                                                          *)
(***************************************************************************)
InitRest ==
    /\ sched_pc = "run"
    /\ execution_sets = << >>
    /\ cyclic_node = 0
    /\ weights = << >>
    /\ biases = << >>
    /\ value = << >>
    /\ fwd_input = 0
    /\ torch_steps = 0
    /\ weights_in_numpy = << >>
    /\ outputs = << >>
    /\ model_params = << >>
    /\ model_input = << >>
    /\ data = << >>
    /\ z_values = << >>
    /\ fwd_kernel = "none"
    /\ bin_input = 0
    /\ train_kernel = "none"
    /\ backprop_queue = << >>
    /\ error_dict = << >>
    /\ train_pc = "idle"
    /\ epoch_idx = 0
    /\ input_idx = 0
    /\ optimizer_struct = << >>
    /\ error_val = << >>
    /\ total_loss = 0
    /\ params_at_start = << >>
    /\ train_calls = 0
    /\ forward_runs = << >>
    /\ loss_values = << >>
    /\ param_struct_type = << >>
    /\ compile_attempts = 0
    /\ _cached_param_list = "none"
    /\ weight_ptr_mode = [fwd |-> "none", train |-> "none"]

\* the composition is configured with the loss and the optimizer the kernel supports,
\* and the host has a target for each output node and for no other node
SupportedTraining ==
    /\ loss_spec = "mse"
    /\ optimizer_type = "sgd"
    /\ target_nodes = output_nodes(graph)

Scheduler == SchedulerExtractSet \/ SchedulerFinish \/ SchedulerCyclicGraphError

GenerateTraining == GenTrainingStart \/ GenBackpropPop \/ GenTrainingFinish

RunTraining ==
    \/ TrainInvoke
    \/ ZeroGrad
    \/ BackpropCopyInput
    \/ BackpropForward
    \/ BackpropComputeErrors
    \/ BackpropWeightGradients
    \/ OptimizerStep

\* Spec: a model is scheduled, constructed, compiled and trained on its stimuli
Init ==
    /\ graph \in GraphFamily
    /\ param_init_from_pnl \in BOOLEAN
    /\ debug_env \in {{}, {"no_ref_pass"}}
    /\ epochs \in 1..MaxEpochs
    /\ batch \in Batches
    /\ SupportedTraining
    /\ invocations = MaxTrainCalls
    /\ InitRest

Next ==
    \/ Scheduler
    \/ Construct
    \/ GenLLVMFunction
    \/ \E s \in SampleIds : RunForwardKernel(s)
    \/ GenerateTraining
    \/ RunTraining

Spec == Init /\ [][Next]_vars

\* SpecForward: the interpreted forward method and the forward kernel side by side,
\* with training calls on a single sample in between
ForwardInit ==
    /\ graph \in GraphFamily
    /\ param_init_from_pnl \in BOOLEAN
    /\ debug_env \in {{}, {"no_ref_pass"}}
    /\ epochs = 1
    /\ batch = <<1>>
    /\ SupportedTraining
    /\ invocations = MaxTrainCalls
    /\ InitRest

ForwardNext ==
    \/ Scheduler
    \/ Construct
    \/ \E s \in SampleIds : Forward(s)
    \/ \E d \in {1} : TorchOptimizerStep(d)
    \/ GenLLVMFunction
    \/ \E s \in SampleIds : RunForwardKernel(s)
    \/ GenerateTraining
    \/ RunTraining

SpecForward == ForwardInit /\ [][ForwardNext]_vars

\* SpecSched: every graph of at most MaxNodes nodes and MaxEdges projections is
\* scheduled, and the kernels are generated for the graphs the scheduler accepts
RECURSIVE EdgeSets(_, _)
EdgeSets(pairs, k) ==
    IF k = 0 THEN {{}}
    ELSE LET smaller == EdgeSets(pairs, k - 1)
         IN  smaller \cup {E \cup {e} : E \in smaller, e \in pairs}

SchedInit ==
    /\ \E n \in 1..MaxNodes : \E E \in EdgeSets((1..n) \X (1..n), MaxEdges) :
          graph = [n |-> n, proj |-> SetToSeq(E), width |-> [k \in 1..n |-> 1],
                   fn |-> [k \in 1..n |-> Lin]]
    /\ param_init_from_pnl = TRUE
    /\ debug_env = {}
    /\ epochs = 1
    /\ batch = <<1>>
    /\ SupportedTraining
    /\ invocations = MaxTrainCalls
    /\ InitRest

SchedNext == Scheduler \/ Construct \/ GenLLVMFunction \/ GenerateTraining

SpecSched == SchedInit /\ [][SchedNext]_vars

\* SpecCompile: a composition with any loss and optimizer setting is scheduled and
\* constructed and its kernels are generated, again after a failed generation
LossSpecs == {"mse", "l1"}

OptimizerTypes == {"sgd", "adam", "rmsprop"}

\* targets for the output nodes; for an origin node as well; for no node
TargetChoices(g) ==
    {output_nodes(g), output_nodes(g) \cup input_nodes(g), {}}

CompileInit ==
    /\ graph \in GraphFamily
    /\ param_init_from_pnl \in BOOLEAN
    /\ debug_env \in {{}, {"no_ref_pass"}}
    /\ loss_spec \in LossSpecs
    /\ optimizer_type \in OptimizerTypes
    /\ invocations = MaxTrainCalls
    /\ target_nodes \in TargetChoices(graph)
    /\ epochs = 1
    /\ batch = <<1>>
    /\ InitRest

CompileNext ==
    Scheduler \/ Construct \/ GenLLVMFunction \/ GenerateTraining \/ DebugUpdate

SpecCompile == CompileInit /\ [][CompileNext]_vars

\* SpecCompileFair: SpecCompile where the work-queue loop, once entered, keeps
\* running: the generator is sequential code, so a loop iteration that can run,
\* and the code after the loop, do run
SpecCompileFair ==
    /\ CompileInit
    /\ [][CompileNext]_vars
    /\ WF_vars(GenBackpropPop)
    /\ WF_vars(GenTrainingFinish)

\* SpecOptimizer: an acyclic model is compiled with SGD or Adam and its training
\* kernel is called up to MaxInvocations times
OptimizerGraphs ==
    { [n |-> 2, proj |-> <<(<<1, 2>>)>>, width |-> <<1, 1>>, fn |-> <<Lin, Neg>>],
      [n |-> 3, proj |-> <<(<<1, 2>>), (<<2, 3>>)>>, width |-> <<2, 2, 1>>,
       fn |-> <<Lin, Lin, Sig>>] }

OptimizerInit ==
    /\ graph \in OptimizerGraphs
    /\ param_init_from_pnl \in BOOLEAN
    /\ debug_env \in {{}, {"no_ref_pass"}}
    /\ loss_spec = "mse"
    /\ optimizer_type \in {"sgd", "adam"}
    /\ invocations \in 1..MaxInvocations
    /\ target_nodes = output_nodes(graph)
    /\ epochs = 1
    /\ batch \in Batches
    /\ InitRest

OptimizerNext ==
    \/ SchedulerExtractSet
    \/ SchedulerFinish
    \/ Construct
    \/ GenerateTraining
    \/ RunTraining

SpecOptimizer == OptimizerInit /\ [][OptimizerNext]_vars

\* SpecTrain: an acyclic model is compiled with SGD and its training kernel is
\* called once on 1..MaxEpochs epochs of a batch of 1..MaxInputs samples
TrainGraphs ==
    OptimizerGraphs \cup
    { \* two origin nodes, one layer
      [n |-> 3, proj |-> <<(<<1, 3>>), (<<2, 3>>)>>, width |-> <<1, 2, 2>>,
       fn |-> <<Lin, Lin, Neg>>],
      \* skip connection, the skip projection created last
      [n |-> 4, proj |-> <<(<<1, 2>>), (<<2, 3>>), (<<3, 4>>), (<<2, 4>>)>>,
       width |-> <<1, 2, 1, 1>>, fn |-> <<Lin, Sig, Neg, Sig>>],
      \* two projections between the same pair of nodes
      [n |-> 3, proj |-> <<(<<1, 2>>), (<<2, 3>>), (<<2, 3>>)>>, width |-> <<1, 1, 1>>,
       fn |-> <<Lin, Neg, Sig>>] }

TrainInit ==
    /\ graph \in TrainGraphs
    /\ param_init_from_pnl \in BOOLEAN
    /\ debug_env = {}
    /\ epochs \in 1..MaxEpochs
    /\ batch \in Batches
    /\ SupportedTraining
    /\ invocations = MaxTrainCalls
    /\ InitRest

TrainNext ==
    \/ SchedulerExtractSet
    \/ SchedulerFinish
    \/ Construct
    \/ GenerateTraining
    \/ RunTraining

SpecTrain == TrainInit /\ [][TrainNext]_vars

\* SpecHost: the host reads the weights of a constructed model, writes into the
\* arrays it was given, and updates the model with its pytorch optimizer
HostInit ==
    /\ graph \in GraphFamily
    /\ param_init_from_pnl \in BOOLEAN
    /\ debug_env = {}
    /\ epochs = 1
    /\ batch = <<1>>
    /\ SupportedTraining
    /\ invocations = MaxTrainCalls
    /\ InitRest

HostNext ==
    \/ Scheduler
    \/ Construct
    \/ GetWeightsForProjections
    \/ \E p \in Projections(graph) : HostWritesReturned(p)
    \/ \E d \in {1} : TorchOptimizerStep(d)

SpecHost == HostInit /\ [][HostNext]_vars

(***************************************************************************)
(* Properties                                                              *)
(***************************************************************************)
TrainingReturned == train_pc = "idle" /\ train_calls > 0

\* C1: the optimizer step is executed once per batch, only after every sample of
\* the batch has been accumulated: whenever the kernel is about to execute the
\* optimizer step, the sample just backpropagated is the last one of the batch.
C1_StepOnlyAfterFullBatch ==
    train_pc = "optimizer_step" => input_idx + 1 = num_inputs

\* C2: a node's error is computed only after the error of every one of its
\* efferent nodes: every node entered in error_dict has all its efferent nodes
\* entered before it.
C2_EfferentsProcessedFirst ==
    \A k \in 1..Len(error_dict) :
        \A e \in Range(EfferentNodes(graph, error_dict[k])) :
            \E j \in 1..(k - 1) : error_dict[j] = e

\* C3: for a batch of N identical samples trained for one epoch with SGD, the
\* weight change of every slot over the training call is N times the weight
\* change one iteration on that sample produces from the same starting weights.
C3_BatchOfIdenticalSamples ==
    (TrainingReturned /\ epochs = 1 /\ \A i \in 1..Len(batch) : batch[i] = batch[1]) =>
        LET single == InputLoopIteration(graph, execution_sets, params_at_start,
                                         batch[1], error_dict)
        IN  \A n \in Nodes(graph) :
              \A idx \in 1..Len(afferents(graph, execution_sets, n)) :
                \A r \in 1..Len(PW[n][idx]) :
                  \A c \in 1..Len(PW[n][idx][r]) :
                      PW[n][idx][r][c] - params_at_start[n][idx][r][c] =
                          num_inputs * (single[n][idx][r][c] - params_at_start[n][idx][r][c])

\* the sum over ALL efferent projections of n of error (x) transposed weight
RECURSIVE C4_SumOverEfferentEdges(_, _, _)
C4_SumOverEfferentEdges(n, ps, acc) ==
    IF ps = << >> THEN acc
    ELSE LET p == Head(ps)
             m == EdgeWeight(graph, execution_sets, PW, weights, p)
             contribution == vxm_transposed(error_val[Receiver(graph, p)], m,
                                            Width(graph, n), Width(graph, Receiver(graph, p)))
         IN  C4_SumOverEfferentEdges(n, Tail(ps), vec_add(acc, contribution, Width(graph, n)))

\* C4: once the errors of a sample are computed, the error of every processed
\* node is the activation derivative at its retained z times (elementwise) the
\* loss derivative for an output node, and times the sum over all its efferent
\* projections of the efferent node's error by that projection's transposed
\* weight matrix for any other node.
C4_ErrorFormula ==
    train_pc = "weight_gradients" =>
        \A n \in Range(error_dict) :
            LET derivative == ApplyElementwise("bin_function_derivative_creator",
                                               graph.fn[n], z_values[n], Width(graph, n))
                upstream ==
                    IF n \in output_nodes(graph)
                    THEN MSELossDifferential(data[n], CurrentTargets[n], Width(graph, n))
                    ELSE C4_SumOverEfferentEdges(n, efferents(graph, n), Zeros(Width(graph, n)))
            IN  error_val[n] = vec_hadamard(derivative, upstream, Width(graph, n))

\* C5: after the backpropagation of one sample (the accumulators were zeroed
\* before it), every projection P -> S of the graph has a gradient accumulator,
\* and that accumulator holds P.value[r] * S.error[c] at every entry [r][c].
C5_EveryEdgeAccumulated ==
    train_pc = "optimizer_step" =>
        \A p \in Projections(graph) :
            /\ HasSlot(graph, execution_sets, p)
            /\ optimizer_struct.delta_w[Receiver(graph, p)][SlotIndex(graph, execution_sets, p)] =
                  [r \in 1..Width(graph, Sender(graph, p)) |->
                      [c \in 1..Width(graph, Receiver(graph, p)) |->
                          data[Sender(graph, p)][r] * error_val[Receiver(graph, p)][c]]]

\* the sum over ALL afferent projections of n of predecessor value times weight
RECURSIVE C6_SumOverIncomingEdges(_, _, _)
C6_SumOverIncomingEdges(n, ps, acc) ==
    IF ps = << >> THEN acc
    ELSE LET p == Head(ps)
             m == EdgeWeight(graph, execution_sets, PW, weights, p)
             contribution == vxm(data[Sender(graph, p)], m,
                                 Width(graph, Sender(graph, p)), Width(graph, n))
         IN  C6_SumOverIncomingEdges(n, Tail(ps), vec_add(acc, contribution, Width(graph, n)))

\* C6: after a run of the forward kernel, the value of every non-source node is
\* its activation function applied elementwise to the sum over all its incoming
\* projections of predecessor value times weight, plus its bias when it has one.
C6_CompiledForwardValue ==
    bin_input # 0 =>
        \A n \in Nodes(graph) \ input_nodes(graph) :
            LET summed == C6_SumOverIncomingEdges(n, path_afferents(graph, n),
                                                  Zeros(Width(graph, n)))
                bias   == EffectiveBias(debug_env, model_params, biases, n)
                biased == IF bias # << >> THEN vec_add(summed, bias, Width(graph, n))
                          ELSE summed
            IN  data[n] = ApplyElementwise("function_creator", graph.fn[n], biased,
                                           Width(graph, n))

\* the forward kernel reads the weights and biases the forward method reads
C7_SameParameters ==
    \/ "no_ref_pass" \notin debug_env
    \/ model_params = _get_param_initializer(graph, execution_sets, debug_env,
                                             weights, biases)

\* C7: for a graph of Linear, Logistic and ReLU nodes, with or without biases,
\* the forward kernel can be generated, and when it and the forward method ran
\* on the same sample with the same weights and biases, every node has the same
\* value in both.
C7_CompiledEqualsInterpreted ==
    /\ (\A n \in Nodes(graph) : graph.fn[n].kind \in {"Linear", "Logistic", "ReLU"}) =>
          fwd_kernel # "error"
    /\ (fwd_input # 0 /\ bin_input = fwd_input /\ C7_SameParameters) =>
          \A n \in Nodes(graph) : data[n] = value[n]

\* C8: the result of a forward pass does not depend on what earlier forward or
\* training calls left in the buffers: after a run of the forward kernel or a
\* call of the forward method on a sample, every node has the value the same
\* pass produces from cleared buffers (so a second call on the same sample with
\* unchanged weights returns the same values).
C8_ForwardIndependentOfBuffers ==
    LET zero == [n \in Nodes(graph) |-> Zeros(Width(graph, n))]
    IN  /\ bin_input # 0 =>
              data = _gen_llvm_forward_function_body(
                         graph, execution_sets, PW, SampleInput(graph, bin_input),
                         [out |-> zero, z |-> zero], 1).out
        /\ fwd_input # 0 =>
              value = forward(graph, execution_sets, weights, biases, zero,
                              SampleInput(graph, fwd_input), 1)

\* C8 witness: after a training call, the forward kernel and the forward method
\* both ran on a sample other than the trained one, on a graph with a node of
\* two afferents whose buffers hold nonzero values
C8_Witness ==
    /\ TrainingReturned
    /\ bin_input = 2
    /\ fwd_input = 2
    /\ \E n \in Nodes(graph) :
          /\ Len(afferents(graph, execution_sets, n)) >= 2
          /\ data[n] # Zeros(Width(graph, n))
          /\ value[n] # Zeros(Width(graph, n))

\* C9: for every graph the scheduler accepts, every node is in exactly one
\* execution set and every projection goes from a set of lower index to a set
\* of strictly higher index.
C9_ScheduleValid ==
    sched_pc = "done" =>
        /\ \A n \in Nodes(graph) :
              Cardinality({i \in 1..Len(execution_sets) : n \in execution_sets[i]}) = 1
        /\ \A p \in Projections(graph) :
              \A i, j \in 1..Len(execution_sets) :
                  (Sender(graph, p) \in execution_sets[i] /\
                   Receiver(graph, p) \in execution_sets[j]) => i < j

\* C9 witness: an accepted graph of three layers with a projection that skips one
C9_Witness ==
    /\ sched_pc = "done"
    /\ Len(execution_sets) >= 3
    /\ \E p \in Projections(graph) :
          /\ Sender(graph, p) \in execution_sets[1]
          /\ Receiver(graph, p) \in execution_sets[3]

\* C10: a graph with a cycle is never scheduled: the scheduler stops making
\* progress and fails with a CyclicGraphError naming a node on a cycle; no
\* execution-set list is produced, no model is built and no kernel generated.
C10_CycleRejected ==
    /\ HasCycle(graph) =>
          /\ sched_pc # "done"
          /\ ~Constructed
          /\ fwd_kernel = "none" /\ train_kernel = "none"
    /\ (sched_pc = "run" /\ HasCycle(graph) /\ ReadyNodes(graph, Assigned) = {}) =>
          CycleParticipants(graph, Assigned) # {}
    /\ sched_pc = "CyclicGraphError" =>
          /\ OnCycle(graph, cyclic_node)
          /\ execution_sets = << >>

\* C10 witness: the error is raised after an execution set had been extracted,
\* and a node downstream of the cycle is left unassigned next to the named one
C10_Witness ==
    /\ sched_pc = "CyclicGraphError"
    /\ \E n \in Nodes(graph) : Predecessors(graph, n) = {}
    /\ \E n \in Nodes(graph) : Predecessors(graph, n) # {} /\ ~OnCycle(graph, n)

\* C11: for every node with k incoming projections the weight array of the
\* parameter struct has exactly k slots, and every incoming projection (two
\* projections from the same sender included) is the one a slot of its own
\* was made for.
C11_EveryEdgeOwnSlot ==
    param_struct_type # << >> =>
        \A n \in Nodes(graph) :
            /\ param_struct_type[n].set
            /\ Len(param_struct_type[n].weights) = Len(path_afferents(graph, n))
            /\ \A p \in Range(path_afferents(graph, n)) :
                  \E idx \in 1..Len(param_struct_type[n].weights) :
                      param_struct_type[n].weights[idx].of = p

\* the offset map of a struct type: whose parameters sit at a node index, which
\* tensor sits at (node index, afferent index), and whether there is a bias slot
C12_OffsetMap(pst) ==
    [n \in DOMAIN pst |->
        [node |-> pst[n].node,
         weights |-> [idx \in 1..Len(pst[n].weights) |-> pst[n].weights[idx].of],
         bias |-> Len(pst[n].bias)]]

\* C12: the offset map a compilation produced is the one every compilation of
\* the same topology produces, whatever the iteration order of the execution
\* sets and whatever the ownership mode: the same (node index, afferent index)
\* for every weight and the same bias slot for every node.
C12_SameTopologySameOffsets ==
    param_struct_type # << >> =>
        \A it \in SetIterations : \A env \in {{}, {"no_ref_pass"}} :
            C12_OffsetMap(param_struct_type) =
                C12_OffsetMap(_get_param_struct_type(graph, execution_sets, env, biases,
                                                     ForwardInfoOrder(execution_sets, it)))

\* C12 witness: the forward kernel and the training kernel were both compiled
\* for a graph with two nodes in one execution set, one of them with a bias
C12_Witness ==
    /\ fwd_kernel = "ok"
    /\ train_kernel = "ok"
    /\ \E i \in 1..Len(execution_sets) : Cardinality(execution_sets[i]) >= 2
    /\ \E n \in Nodes(graph) : param_struct_type[n].bias # << >>

\* C13: for a graph with a node whose activation function has no compiled
\* kernel or no derivative kernel, or configured with an unsupported loss, no
\* forward kernel and no training kernel is ever produced, at the first
\* generation or at one made again after a failure.
C13_UnsupportedNeverCompiled ==
    (\/ \E n \in Nodes(graph) : ~BinFunctionSupported(graph.fn[n])
     \/ \E n \in Nodes(graph) : ~BinDerivativeSupported(graph.fn[n])
     \/ loss_spec # "mse")
        => fwd_kernel # "ok" /\ train_kernel # "ok"

\* C14: the auxiliary state of the optimizer is created once per compiled
\* graph and is never reset by a later invocation of the training kernel: from
\* one state to the next Adam's step counter never decreases.
C14_AuxStateNeverReset ==
    [][(optimizer_type = "adam" /\ optimizer_struct # << >>)
          => optimizer_struct'.t >= optimizer_struct.t]_vars

\* the auxiliary state of an optimizer struct: Adam's moments and step counter
C15_AuxState(os) ==
    IF optimizer_type = "adam" THEN [m |-> os.m, v |-> os.v, t |-> os.t] ELSE << >>

C16_TypeMode(pst) ==
    IF pst = << >> \/ \A n \in DOMAIN pst : pst[n].weights = << >> THEN "none"
    ELSE IF \E n \in DOMAIN pst : \E idx \in 1..Len(pst[n].weights) :
               pst[n].weights[idx].ty = "i64"
         THEN "ref" ELSE "copy"

\* C16: within one compiled model the ownership mode is uniform: the struct
\* type, the cached initializer and the weight-pointer access of every kernel
\* generated so far are all by reference or all by copy, after every sequence
\* of calls.
C16_OwnershipModeUniform ==
    Cardinality({weight_ptr_mode.fwd, weight_ptr_mode.train, _cached_param_list,
                 C16_TypeMode(param_struct_type)} \ {"none"}) <= 1

\* an optimizer step of a training kernel call has been executed and the kernel
\* is between two steps or has returned
C17_AfterTrainingStep ==
    /\ train_calls > 0
    /\ \/ train_pc = "idle"
       \/ train_pc = "zero_grad" /\ epoch_idx + input_idx > 0

\* C17: after every training step, by copy and by reference, the weights the
\* host model holds for every projection and the bias it holds for every node
\* equal the values held in the compiled param struct.
C17_HostEqualsCompiledState ==
    C17_AfterTrainingStep =>
        /\ \A p \in Projections(graph) :
              HasSlot(graph, execution_sets, p) =>
                  weights[p] = PW[Receiver(graph, p)][SlotIndex(graph, execution_sets, p)]
        /\ \A n \in Nodes(graph) :
              biases[n] # << >> => biases[n] = EffectiveBias(debug_env, model_params, biases, n)

\* C18: a training configuration with a target for a node that is not an
\* output node, or without the target of an output node, is rejected when the
\* training kernel is generated: no training kernel is generated for it.
C18_BadTargetsRejected ==
    target_nodes # output_nodes(graph) => train_kernel \notin {"gen", "ok"}

C20_SourceNodesFedFromInput ==
    /\ param_struct_type # << >> =>
          \A n \in Nodes(graph) :
              (/\ param_struct_type[n].weights = << >>
               /\ param_struct_type[n].bias = << >>
               /\ biases[n] = << >>
               /\ ExecSetIndex(execution_sets, n) = 1)
                  <=> Predecessors(graph, n) = {}
    /\ train_pc = "compute_errors" =>
          \A n \in Nodes(graph) :
              z_values[n] =
                  IF Predecessors(graph, n) = {} THEN model_input[n]
                  ELSE WeightedInputs(graph, execution_sets, PW, data, n, 1,
                                      Zeros(Width(graph, n)))

\* C20 witness: the forward pass of a training step has run on a model with
\* biases; a source node and a node with afferents both have a nonzero
\* pre-activation
C20_Witness ==
    /\ train_pc = "compute_errors"
    /\ \E n \in Nodes(graph) :
          Predecessors(graph, n) = {} /\ z_values[n] # Zeros(Width(graph, n))
    /\ \E n \in Nodes(graph) :
          /\ Predecessors(graph, n) # {}
          /\ biases[n] # << >>
          /\ z_values[n] # Zeros(Width(graph, n))

\* the input region of the kernel holds the sample at the current position
InputRegionHoldsCurrentSample ==
    \A n \in input_nodes(graph) :
        model_input[n] = SampleInput(graph, batch[input_idx + 1])[n]

\* the forward body has run at the current (epoch, input) position
ForwardDoneHere ==
    train_pc \in {"compute_errors", "weight_gradients", "optimizer_step", "idle"}

\* C21: in one training invocation with E epochs and N inputs the forward pass
\* runs exactly E*N times, once for each (epoch, input) pair in loop order; each
\* run comes after that input was copied into the input region and before the
\* errors of that sample are computed.
C21_ForwardOncePerEpochAndInput ==
    train_calls > 0 =>
        /\ Len(forward_runs) = epoch_idx * num_inputs + input_idx
                                   + (IF ForwardDoneHere THEN 1 ELSE 0)
        /\ \A i \in 1..Len(forward_runs) :
              forward_runs[i] = <<(i - 1) \div num_inputs, (i - 1) % num_inputs>>
        /\ (train_pc = "forward" \/ train_pc = "compute_errors")
              => InputRegionHoldsCurrentSample
        /\ train_pc = "compute_errors"
              => forward_runs[Len(forward_runs)] = <<epoch_idx, input_idx>>
        /\ TrainingReturned => Len(forward_runs) = epochs * num_inputs

C21_Witness ==
    /\ TrainingReturned
    /\ epochs = MaxEpochs
    /\ num_inputs = MaxInputs
    /\ Len(forward_runs) = MaxEpochs * MaxInputs
    /\ batch[1] # batch[MaxInputs]

\* the accumulation of a sample's gradients has begun and has not yet added anything
AccumulationBegins ==
    train_pc \in {"copy_input", "forward", "compute_errors", "weight_gradients"}

\* C22: whenever the gradient accumulation begins, every entry of every gradient
\* accumulator is zero, and the accumulators the optimizer step reads hold the
\* gradients accumulated since then and nothing of an earlier sample or epoch.
C22_AccumulatorsZeroAtStart ==
    /\ AccumulationBegins
          => optimizer_struct.delta_w = ZeroDeltaW(graph, execution_sets)
    /\ train_pc = "optimizer_step"
          => optimizer_struct.delta_w =
                WeightGradients(graph, execution_sets, data, error_val,
                                ZeroDeltaW(graph, execution_sets), error_dict)

\* the second epoch begins after an optimizer step that read nonzero gradients
C22_Witness ==
    /\ AccumulationBegins
    /\ epoch_idx > 0
    /\ input_idx = 0
    /\ PW # params_at_start
    /\ optimizer_struct.delta_w = ZeroDeltaW(graph, execution_sets)

\* the running total of the loss values of the samples of the batch backpropagated
\* so far in this epoch
RECURSIVE BatchLoss(_, _)
BatchLoss(values, count) ==
    IF count = 0 THEN 0
    ELSE values[Len(values)] + BatchLoss(SubSeq(values, 1, Len(values) - 1), count - 1)

\* C23: the scalar loss available after a training step is the running total of
\* the loss values of all output nodes accumulated over all samples of the batch.
C23_LossIsBatchTotal ==
    (train_pc = "optimizer_step" /\ input_idx + 1 = num_inputs)
        => total_loss = BatchLoss(loss_values, num_inputs)

\* a step of the interpreted forward method or of the forward kernel: outside a
\* training call, node values are written or a new input is taken
ForwardCallStep ==
    /\ Quiescent
    /\ train_pc' = "idle"
    /\ \/ value' # value
       \/ data' # data
       \/ fwd_input' \notin {0, fwd_input}
       \/ bin_input' \notin {0, bin_input}

\* the positional afferent indices of every node
AfferentLayout == [n \in Nodes(graph) |-> afferents(graph, execution_sets, n)]

\* C24: a forward call changes only node values: every edge weight, every bias
\* and the layout (node indices, positional afferent indices, struct type) are the
\* same after the call as before it, and no kernel has to be generated again.
C24_ForwardChangesOnlyValues ==
    [][ForwardCallStep =>
          /\ weights' = weights
          /\ biases' = biases
          /\ model_params' = model_params
          /\ AfferentLayout' = AfferentLayout
          /\ param_struct_type' = param_struct_type
          /\ fwd_kernel' = fwd_kernel
          /\ train_kernel' = train_kernel]_vars

\* both forward paths have run, on different inputs, after the host optimizer
\* changed the weights and biases
C24_Witness ==
    /\ fwd_input # 0
    /\ bin_input # 0
    /\ fwd_input # bin_input
    /\ torch_steps > 0
    /\ \E n \in Nodes(graph) : biases[n] # << >> /\ biases[n] # Zeros(Width(graph, n))

\* the host wrote into an array it was given
HostWriteStep ==
    /\ weights_in_numpy # << >>
    /\ \E p \in DOMAIN weights_in_numpy :
          /\ weights_in_numpy[p].array[1][1] # HostValue
          /\ weights_in_numpy'[p].array[1][1] = HostValue

\* the pytorch optimizer updated the model's weights
ModelUpdateStep == torch_steps' # torch_steps

\* get_weights_for_projections returned
GetWeightsStep ==
    /\ weights_in_numpy' # weights_in_numpy
    /\ ~HostWriteStep
    /\ ~ModelUpdateStep

\* C25: get_weights_for_projections returns, for every projection, a copy of the
\* model's current weights: writing into a returned array never changes the
\* model's weights, and a later update of the model's weights never changes an
\* array returned earlier.
C25_ReturnedWeightsAreCopies ==
    [][/\ GetWeightsStep =>
             /\ DOMAIN weights_in_numpy' = Projections(graph)
             /\ \A p \in Projections(graph) : weights_in_numpy'[p].array = weights[p]
       /\ HostWriteStep => weights' = weights
       /\ ModelUpdateStep => weights_in_numpy' = weights_in_numpy]_vars

\* the host holds arrays it wrote into, the model was updated since they were
\* returned, and neither shows in the other
C25_Witness ==
    /\ weights_in_numpy # << >>
    /\ torch_steps > 0
    /\ \E p \in Projections(graph) :
          /\ weights_in_numpy[p].array[1][1] = HostValue
          /\ weights[p][1][1] # HostValue
          /\ \E q \in Projections(graph) : weights_in_numpy[q].array # weights[q]

\* the arguments of the k-th _gen_inject_vxm call emitted for node n: the node
\* whose value is read, the slot [node index][afferent index] of the matrix, the
\* dimensions passed, and the node whose value buffer takes the result
ForwardProductArgs(g, sets, n, k) ==
    LET input_node == afferents(g, sets, n)[k]
    IN  [input |-> input_node,
         slot |-> <<n, _get_afferent_node_index(g, sets, n, input_node)>>,
         x |-> WeightDimX(g, n, input_node),
         y |-> WeightDimY(g, n, input_node),
         output |-> n]

\* the arguments of the k-th _gen_inject_vxm_transposed call emitted for node n:
\* the efferent node whose error is read, the slot of the matrix, the dimensions
\* passed, and the node whose error_val takes the result
BackwardProductArgs(g, sets, n, k) ==
    LET efferent_node == EfferentNodes(g, n)[k]
    IN  [input |-> efferent_node,
         slot |-> <<efferent_node, _get_afferent_node_index(g, sets, efferent_node, n)>>,
         x |-> WeightDimX(g, efferent_node, n),
         y |-> WeightDimY(g, efferent_node, n),
         output |-> n]

\* C26: for every edge P -> S the forward product reads a vector of width(P) and
\* writes one of width(S), the backward transposed product reads the error of S
\* and writes a vector of width(P), and both address the same stored matrix with
\* the same (rows, cols) = (width(P), width(S)), the shape of the stored matrix.
C26_ProductShapesConsistent ==
    Constructed =>
        /\ \A n \in Nodes(graph) : \A k \in 1..Len(afferents(graph, execution_sets, n)) :
              LET f == ForwardProductArgs(graph, execution_sets, n, k)
                  m == weights[AfferentProjection(graph, n, f.input)]
              IN  /\ f.x = Width(graph, f.input)
                  /\ f.y = Width(graph, f.output)
                  /\ Len(m) = f.x
                  /\ \A r \in 1..Len(m) : Len(m[r]) = f.y
        /\ \A n \in Range(error_dict) \ output_nodes(graph) :
              \A k \in 1..Len(EfferentNodes(graph, n)) :
                 LET b == BackwardProductArgs(graph, execution_sets, n, k)
                     f == ForwardProductArgs(graph, execution_sets, b.input, b.slot[2])
                 IN  /\ f.input = b.output
                     /\ f.output = b.input
                     /\ f.slot = b.slot
                     /\ b.x = f.x
                     /\ b.y = f.y
                     /\ b.x = Width(graph, b.output)
                     /\ b.y = Width(graph, b.input)

\* the training kernel is generated for a model with a hidden node whose width
\* differs from the width of the node it projects to
C26_Witness ==
    /\ train_kernel = "ok"
    /\ \E n \in Range(error_dict) \ output_nodes(graph) :
          \E k \in 1..Len(EfferentNodes(graph, n)) :
             Width(graph, n) # Width(graph, EfferentNodes(graph, n)[k])

\* no node has two entries in error_dict, and no input node has one
ErrorAtMostOncePerNode ==
    /\ \A i, j \in 1..Len(error_dict) : error_dict[i] = error_dict[j] => i = j
    /\ Range(error_dict) \cap input_nodes(graph) = {}

\* popping an input node only removes it from the queue
InputNodePushesNothing ==
    (train_kernel = "gen" /\ backprop_queue # << >>
        /\ Head(backprop_queue) \in input_nodes(graph))
    => (backprop_queue' = Tail(backprop_queue) /\ error_dict' = error_dict)

\* C27: the work-queue loop of the backward pass terminates, computes an error
\* for each node at most once, and never computes an error for an input node or
\* pushes work on behalf of one.
C27_WorkQueueTerminates ==
    /\ []ErrorAtMostOncePerNode
    /\ [][InputNodePushesNothing]_vars
    /\ (train_kernel = "gen") ~> (train_kernel # "gen")

\* the loop ended for a graph in which a node was pushed once for each of its
\* two efferent projections
C27_Witness ==
    /\ train_kernel = "ok"
    /\ backprop_queue = << >>
    /\ \E n \in Range(error_dict) : Len(EfferentNodes(graph, n)) > 1
    /\ Range(error_dict) = Nodes(graph) \ input_nodes(graph)

\* a_val[row] * d_val[column] for the edge from node a to node n
EdgeGradient(g, out, errs, a, n) ==
    [r \in 1..Width(g, a) |-> [c \in 1..Width(g, n) |-> out[a][r] * errs[n][c]]]

\* C28: for every edge that has a weight slot, the gradient accumulator slot the
\* backward pass writes has the same (destination node index, afferent index) and
\* the same shape as the weight slot of that edge, so that the optimizer step
\* subtracts from the weights of an edge the gradient computed for that edge.
C28_GradientSlotIsWeightSlot ==
    train_pc = "optimizer_step" =>
        \A p \in Projections(graph) :
            (HasSlot(graph, execution_sets, p)
                /\ Receiver(graph, p) \in Range(error_dict)) =>
            LET S   == Receiver(graph, p)
                P   == Sender(graph, p)
                idx == SlotIndex(graph, execution_sets, p)
                dw  == optimizer_struct.delta_w[S][idx]
                w   == PW[S][idx]
            IN  /\ Len(dw) = Width(graph, P)
                /\ \A r \in 1..Len(dw) : Len(dw[r]) = Width(graph, S)
                /\ Len(w) = Len(dw)
                /\ \A r \in 1..Len(w) : Len(w[r]) = Len(dw[r])
                /\ w = weights[p]
                /\ dw = EdgeGradient(graph, data, error_val, P, S)
                /\ SGDStep(graph, execution_sets, PW, optimizer_struct)[S][idx] =
                      [r \in 1..Len(w) |-> [c \in 1..Len(w[r]) |->
                          w[r][c] - LearningRate * data[P][r] * error_val[S][c]]]

\* gradients were written for a node with two afferents whose slots differ in
\* shape and in content
C28_Witness ==
    /\ train_pc = "optimizer_step"
    /\ \E n \in Range(error_dict) :
          /\ Len(afferents(graph, execution_sets, n)) = 2
          /\ optimizer_struct.delta_w[n][1] # optimizer_struct.delta_w[n][2]
          /\ Len(optimizer_struct.delta_w[n][1]) # Len(optimizer_struct.delta_w[n][2])
          /\ optimizer_struct.delta_w[n][2] # ZeroMatrix(2, 2)

\* the tensor an initializer slot was built from: the slot holds its address
\* (by reference) or its values
InitializerSlotIsTensor(slot, tensor_id, tensor) ==
    IF _cached_param_list = "ref" THEN slot = tensor_id ELSE slot = tensor

\* C29: the parameter struct type and the parameter initializer have the same
\* structure: for every node index the same number of weight slots, built from
\* the same tensors in the same positional order, and a bias slot in one exactly
\* when there is one in the other; and every node index has an entry in both.
C29_TypeAndInitializerSameStructure ==
    (param_struct_type # << >> /\ model_params # << >>) =>
        /\ DOMAIN param_struct_type = Nodes(graph)
        /\ DOMAIN model_params = Nodes(graph)
        /\ \A n \in Nodes(graph) :
              /\ param_struct_type[n].set
              /\ param_struct_type[n].node = n
              /\ model_params[n].node = n
              /\ Len(param_struct_type[n].weights) = Len(model_params[n].weights)
              /\ \A idx \in 1..Len(model_params[n].weights) :
                    InitializerSlotIsTensor(model_params[n].weights[idx],
                                            param_struct_type[n].weights[idx].of,
                                            weights[param_struct_type[n].weights[idx].of])
              /\ Len(param_struct_type[n].bias) = Len(model_params[n].bias)
              /\ \A k \in 1..Len(model_params[n].bias) :
                    InitializerSlotIsTensor(model_params[n].bias[k],
                                            param_struct_type[n].bias[k].of,
                                            biases[param_struct_type[n].bias[k].of])

\* the type and the initializer exist for a model in which one node has two
\* weight slots and a bias and another node has neither, the type computed in
\* the other ownership mode than the initializer
C29_Witness ==
    /\ param_struct_type # << >>
    /\ model_params # << >>
    /\ \E n \in Nodes(graph) :
          /\ Len(model_params[n].weights) = 2
          /\ Len(model_params[n].bias) = 1
    /\ \E n \in Nodes(graph) :
          /\ Len(param_struct_type[n].weights) = 0
          /\ Len(param_struct_type[n].bias) = 0
    /\ _cached_param_list # OwnershipMode(debug_env)

\* C30: the interpreted forward method returns, and copies back to the host,
\* the values of exactly the nodes of the last execution set: every node of the
\* last set is in the returned mapping with its value, and no node of an earlier
\* set is.
C30_OutputsAreLastExecutionSet ==
    outputs # << >> =>
        /\ DOMAIN outputs = execution_sets[Len(execution_sets)]
        /\ \A i \in 1..(Len(execution_sets) - 1) :
              execution_sets[i] \cap DOMAIN outputs = {}
        /\ \A n \in DOMAIN outputs : outputs[n] = value[n]

\* forward returned for a model of at least three execution sets in which a node
\* of an earlier set holds a nonzero value
C30_Witness ==
    /\ outputs # << >>
    /\ Len(execution_sets) >= 3
    /\ \E n \in Nodes(graph) \ DOMAIN outputs : value[n] # Zeros(Width(graph, n))
    /\ \E n \in DOMAIN outputs : outputs[n] # Zeros(Width(graph, n))

====
